---------------------------- MODULE Spec2Model ----------------------------
(***************************************************************************)
(* A model of ZText (src/src/include/ZText.h): the element tree with its   *)
(* manual ownership, the registries of a ZText object, the evaluation      *)
(* engine and the text/token scanner.                                      *)
(*                                                                         *)
(* Memory is a sequence of Element records addressed by their index; 0 is  *)
(* nullptr.  A deleted element keeps its slot with live = FALSE, so that a *)
(* read through a dangling pointer is detected and reported as a fault.    *)
(* Strings are sequences of one-character strings.  String indexes in the  *)
(* scanner are the 0-based indexes of the C++ code (see At).               *)
(***************************************************************************)
EXTENDS Integers, Sequences, FiniteSets, TLC

VARIABLES mem, zt, doc, last

vars == <<mem, zt, doc, last>>

(***************************************************************************)
(* Constants of the source                                                 *)
(***************************************************************************)
Null == 0

Token_Begin == "{"

Token_End == "}"

Token_Escape == "\\"

(***************************************************************************)
(* Bounds of the model                                                     *)
(***************************************************************************)
\* Depth of nested eval calls after which the call stack is taken to be
\* exhausted.
MaxDepth == 12

(***************************************************************************)
(* std::unordered_map and std::string helpers                              *)
(***************************************************************************)
EmptyMap == [k \in {} |-> Null]

Contains(f, k) == k \in DOMAIN f

MapPut(f, k, v) == [x \in (DOMAIN f) \cup {k} |-> IF x = k THEN v ELSE f[x]]

MapErase(f, k) == [x \in (DOMAIN f) \ {k} |-> f[x]]

\* x bound to the value of an expression within F: a local variable of the
\* code that is assigned once.
Bind(x, F(_)) == F(x)

\* string.erase(index, 1), index 0-based
Erase1(string, index) == SubSeq(string, 1, index) \o SubSeq(string, index + 2, Len(string))

\* string[index] for a 0-based index; string[size()] is the terminating NUL.
At(string, index) == IF index >= 0 /\ index < Len(string) THEN string[index + 1] ELSE "NUL"

IsDigit(c) == c \in {"0", "1", "2", "3", "4", "5", "6", "7", "8", "9"}

DigitVal(c) == CHOOSE n \in 0..9 : <<"0", "1", "2", "3", "4", "5", "6", "7", "8", "9">>[n + 1] = c

RECURSIVE StoulFrom(_, _, _)
StoulFrom(key, index, acc) ==
    IF index < Len(key) /\ IsDigit(At(key, index))
    THEN StoulFrom(key, index + 1, acc * 10 + DigitVal(At(key, index)))
    ELSE acc

\* std::stoul(key): the value of the leading digits; without a leading digit
\* std::invalid_argument is thrown (ok = FALSE).
Stoul(key) == [ok |-> Len(key) > 0 /\ IsDigit(key[1]), value |-> StoulFrom(key, 0, 0)]

(***************************************************************************)
(* The Element struct and the machine state threaded through the code      *)
(***************************************************************************)
NewElement ==
    [ next |-> Null, prev |-> Null, child |-> Null, parent |-> Null
    , map |-> EmptyMap, array |-> <<>>, property |-> EmptyMap
    , text |-> <<>>, type |-> "Text", live |-> TRUE ]

\* element_init_(element); delete element;
DeadElement == [NewElement EXCEPT !.live = FALSE]

NewZText ==
    [ array |-> EmptyMap, array_readonly |-> EmptyMap
    , command |-> EmptyMap
    , map |-> EmptyMap, map_readonly |-> EmptyMap
    , variable |-> EmptyMap, variable_readonly |-> EmptyMap ]

\* A pointer that can be dereferenced.
Live(S, e) == e \in 1..Len(S.mem) /\ S.mem[e].live

Fault(S, what) == IF S.fault = "none" THEN [S EXCEPT !.fault = what] ELSE S

Ok(S) == S.fault = "none"

\* new ztext::Element with type and text set
element_create_(S, type, text) ==
    [ s |-> [S EXCEPT !.mem = Append(@, [NewElement EXCEPT !.type = type, !.text = text])]
    , element |-> Len(S.mem) + 1 ]

element_text_create(S, text) == element_create_(S, "Text", text)

element_variable_create(S, name) == element_create_(S, "Variable", name)

element_array_create(S, name) == element_create_(S, "Array", name)

element_map_create(S, name) == element_create_(S, "Map", name)

element_command_create(S, name) == element_create_(S, "Command", name)

(***************************************************************************)
(* Element chains: append, remove, destroy                                 *)
(***************************************************************************)
\* A pointer field that is null or points to a live element.
DerefOk(S, p) == p = Null \/ Live(S, p)

RECURSIVE append_walk_(_, _, _, _)
\* The loop of element_append and element_insert that re-parents the chain
\* of element and finds its tail.  fuel bounds the walk: a cyclic chain
\* never ends it.
append_walk_(S, tail, parent, fuel) ==
    IF ~Live(S, tail) THEN [s |-> Fault(S, "uaf"), tail |-> tail]
    ELSE IF fuel = 0 THEN [s |-> Fault(S, "hang"), tail |-> tail]
    ELSE LET S1 == [S EXCEPT !.mem[tail].parent = parent]
         IN  IF S1.mem[tail].next = Null
             THEN [s |-> S1, tail |-> tail]
             ELSE append_walk_(S1, S1.mem[tail].next, parent, fuel - 1)

\* An append that links the chain in front of the former next of position
\* and does not link that element back to the tail of the chain.
element_append_forward_(S, position, element) ==
    IF ~Ok(S) THEN [s |-> S, error |-> "Error_None"]
    ELSE IF position = Null THEN [s |-> S, error |-> "Error_Invalid_Parameter"]
    ELSE IF element = Null THEN [s |-> S, error |-> "Error_Invalid_Parameter"]
    ELSE IF ~Live(S, position) \/ ~Live(S, element) THEN [s |-> Fault(S, "uaf"), error |-> "Error_None"]
    ELSE IF S.mem[element].prev # Null THEN [s |-> S, error |-> "Error_Element_In_Use"]
    ELSE Bind(append_walk_(S, element, S.mem[position].parent, Len(S.mem)), LAMBDA t :
         IF ~Ok(t.s) THEN [s |-> t.s, error |-> "Error_None"]
         ELSE Bind([t.s EXCEPT !.mem[element].prev = position, !.mem[t.tail].next = S.mem[position].next], LAMBDA S3 :
                   [s |-> [S3 EXCEPT !.mem[position].next = element], error |-> "Error_None"]))

element_append(S, position, element) ==
    IF ~Ok(S) THEN [s |-> S, error |-> "Error_None"]
    ELSE IF position = Null THEN [s |-> S, error |-> "Error_Invalid_Parameter"]
    ELSE IF element = Null THEN [s |-> S, error |-> "Error_Invalid_Parameter"]
    ELSE IF ~Live(S, position) \/ ~Live(S, element) THEN [s |-> Fault(S, "uaf"), error |-> "Error_None"]
    ELSE IF S.mem[element].prev # Null THEN [s |-> S, error |-> "Error_Element_In_Use"]
    ELSE Bind(append_walk_(S, element, S.mem[position].parent, Len(S.mem)), LAMBDA t :
         IF ~Ok(t.s) THEN [s |-> t.s, error |-> "Error_None"]
         ELSE Bind([t.s EXCEPT !.mem[element].prev = position, !.mem[t.tail].next = S.mem[position].next], LAMBDA S3 :
              Bind([S3 EXCEPT !.mem[position].next = element], LAMBDA S4 :
              Bind(S4.mem[t.tail].next, LAMBDA tn :
                   [ s |-> IF tn # Null
                           THEN IF Live(S4, tn) THEN [S4 EXCEPT !.mem[tn].prev = t.tail] ELSE Fault(S4, "uaf")
                           ELSE S4
                   , error |-> "Error_None" ]))))

element_insert(S, position, element) ==
    IF ~Ok(S) THEN [s |-> S, error |-> "Error_None"]
    ELSE IF position = Null THEN [s |-> S, error |-> "Error_Invalid_Parameter"]
    ELSE IF element = Null THEN [s |-> S, error |-> "Error_Invalid_Parameter"]
    ELSE IF ~Live(S, position) \/ ~Live(S, element) THEN [s |-> Fault(S, "uaf"), error |-> "Error_None"]
    ELSE IF S.mem[element].prev # Null THEN [s |-> S, error |-> "Error_Element_In_Use"]
    ELSE Bind(append_walk_(S, element, S.mem[position].parent, Len(S.mem)), LAMBDA t :
         IF ~Ok(t.s) THEN [s |-> t.s, error |-> "Error_None"]
         ELSE Bind([t.s EXCEPT !.mem[element].prev = t.s.mem[position].prev], LAMBDA S2 :
              Bind([S2 EXCEPT !.mem[t.tail].next = position], LAMBDA S3 :
              Bind([S3 EXCEPT !.mem[position].prev = t.tail], LAMBDA S4 :
              Bind(S4.mem[element].prev, LAMBDA ep :
                   [ s |-> IF ep # Null
                           THEN IF Live(S4, ep) THEN [S4 EXCEPT !.mem[ep].next = element] ELSE Fault(S4, "uaf")
                           ELSE S4
                   , error |-> "Error_None" ])))))

\* element_remove without the update of the child pointer of the parent.
element_remove_parentless_(S, element) ==
    IF ~Ok(S) THEN S
    ELSE IF element = Null THEN Fault(S, "null")
    ELSE IF ~Live(S, element) THEN Fault(S, "uaf")
    ELSE LET e  == S.mem[element]
             m2 == IF e.next # Null THEN [S.mem EXCEPT ![e.next].prev = e.prev] ELSE S.mem
             m3 == IF e.prev # Null THEN [m2 EXCEPT ![e.prev].next = e.next] ELSE m2
             m4 == [m3 EXCEPT ![element].next = Null, ![element].prev = Null, ![element].parent = Null]
         IN  IF DerefOk(S, e.parent) /\ DerefOk(S, e.next) /\ DerefOk(S, e.prev)
             THEN [S EXCEPT !.mem = m4]
             ELSE Fault(S, "uaf")

element_remove(S, element) ==
    IF ~Ok(S) THEN S
    ELSE IF element = Null THEN Fault(S, "null")
    ELSE IF ~Live(S, element) THEN Fault(S, "uaf")
    ELSE LET e  == S.mem[element]
             m1 == IF e.parent # Null /\ S.mem[e.parent].child = element
                   THEN [S.mem EXCEPT ![e.parent].child = e.next]
                   ELSE S.mem
             m2 == IF e.next # Null THEN [m1 EXCEPT ![e.next].prev = e.prev] ELSE m1
             m3 == IF e.prev # Null THEN [m2 EXCEPT ![e.prev].next = e.next] ELSE m2
             m4 == [m3 EXCEPT ![element].next = Null, ![element].prev = Null, ![element].parent = Null]
         IN  IF DerefOk(S, e.parent) /\ DerefOk(S, e.next) /\ DerefOk(S, e.prev)
             THEN [S EXCEPT !.mem = m4]
             ELSE Fault(S, "uaf")

\* The Element*& parameter of element_destroy: a local variable or registry
\* slot of the caller (its value travels in the record), or the child field
\* of an element, which element_remove may change under the callee's feet.
Local(e) == [kind |-> "local", val |-> e, of |-> Null]

ChildOf(p) == [kind |-> "child", val |-> Null, of |-> p]

RefGet(S, ref) == IF ref.kind = "child" THEN S.mem[ref.of].child ELSE ref.val

RefPut(S, ref, v) ==
    IF ref.kind = "child"
    THEN [s |-> [S EXCEPT !.mem[ref.of].child = v], ref |-> ref]
    ELSE [s |-> S, ref |-> [ref EXCEPT !.val = v]]

RECURSIVE destroy_walk_(_, _, _)
\* The inner while loop of element_destroy: frees a chain of children and
\* pushes their own children; the array and map of a child are not visited.
destroy_walk_(S, element, stack) ==
    IF element = Null THEN [s |-> S, stack |-> stack]
    ELSE IF ~Live(S, element) THEN [s |-> Fault(S, "uaf"), stack |-> stack]
    ELSE LET e == S.mem[element]
         IN  destroy_walk_( [S EXCEPT !.mem[element] = DeadElement]
                          , e.next
                          , IF e.child # Null THEN Append(stack, e.child) ELSE stack )

RECURSIVE destroy_stack_(_, _)
\* The outer while(stack.empty() == false) loop of element_destroy.
destroy_stack_(S, stack) ==
    IF stack = <<>> \/ ~Ok(S) THEN S
    ELSE Bind(destroy_walk_(S, stack[Len(stack)], SubSeq(stack, 1, Len(stack) - 1)), LAMBDA r :
         destroy_stack_(r.s, r.stack))

RECURSIVE element_destroy(_, _), element_destroy_all(_, _), array_destroy_(_, _), map_destroy_(_, _)
\* The part of element_destroy that follows element_remove: element is read
\* again through the reference.
destroy_removed_(S1, ref, retval) ==
    Bind(RefGet(S1, ref), LAMBDA e1 :
    IF ~Ok(S1) THEN [s |-> S1, retval |-> retval, element |-> e1]
    ELSE IF e1 = Null THEN [s |-> Fault(S1, "null"), retval |-> retval, element |-> e1]
    ELSE IF ~Live(S1, e1) THEN [s |-> Fault(S1, "uaf"), retval |-> retval, element |-> e1]
    ELSE Bind(map_destroy_(array_destroy_(S1, S1.mem[e1].array), S1.mem[e1].map), LAMBDA S3 :
         Bind(IF Ok(S3) THEN [S3 EXCEPT !.mem[e1] = DeadElement] ELSE S3, LAMBDA S4 :
         Bind(destroy_stack_(S4, IF S1.mem[e1].child # Null THEN <<S1.mem[e1].child>> ELSE <<>>), LAMBDA S5 :
              \* element ends as nullptr, also when it is a child field
              [ s |-> IF Ok(S5) /\ ref.kind = "child" THEN RefPut(S5, ref, Null).s ELSE S5
              , retval |-> retval
              , element |-> IF Ok(S5) THEN Null ELSE e1 ]))))

\* element_destroy without the call of element_remove.
element_destroy_sever_(S, ref) ==
    Bind(RefGet(S, ref), LAMBDA e0 :
    IF ~Ok(S) THEN [s |-> S, retval |-> Null, element |-> e0]
    ELSE IF e0 = Null THEN [s |-> Fault(S, "null"), retval |-> Null, element |-> e0]
    ELSE IF ~Live(S, e0) THEN [s |-> Fault(S, "uaf"), retval |-> Null, element |-> e0]
    ELSE destroy_removed_(S, ref, S.mem[e0].next))

element_destroy(S, ref) ==
    Bind(RefGet(S, ref), LAMBDA e0 :
    IF ~Ok(S) THEN [s |-> S, retval |-> Null, element |-> e0]
    ELSE IF e0 = Null THEN [s |-> Fault(S, "null"), retval |-> Null, element |-> e0]
    ELSE IF ~Live(S, e0) THEN [s |-> Fault(S, "uaf"), retval |-> Null, element |-> e0]
    ELSE destroy_removed_(element_remove(S, e0), ref, S.mem[e0].next))

element_destroy_all(S, ref) ==
    IF ~Ok(S) \/ RefGet(S, ref) = Null THEN S
    ELSE Bind(element_destroy(S, ref), LAMBDA r :
         IF ~Ok(r.s) THEN r.s
         ELSE Bind(RefPut(r.s, ref, r.retval), LAMBDA p : element_destroy_all(p.s, p.ref)))

\* for(auto& element : array) element_destroy_all(element); array.clear();
array_destroy_(S, array) ==
    IF array = <<>> \/ ~Ok(S) THEN S
    ELSE array_destroy_(element_destroy_all(S, Local(Head(array))), Tail(array))

\* for(auto& [name, element] : map) element_destroy_all(element); map.clear();
map_destroy_(S, map) ==
    IF DOMAIN map = {} \/ ~Ok(S) THEN S
    ELSE LET name == CHOOSE k \in DOMAIN map : TRUE
         IN  map_destroy_(element_destroy_all(S, Local(map[name])), MapErase(map, name))

(***************************************************************************)
(* Deep copies                                                             *)
(***************************************************************************)
RECURSIVE element_copy_(_, _), element_copy_all_(_, _), copy_all_loop_(_, _, _, _)
element_copy_(S, element) ==
    IF ~Ok(S) THEN [s |-> S, element |-> Null]
    ELSE IF ~Live(S, element) THEN [s |-> Fault(S, "uaf"), element |-> Null]
    ELSE Bind(Len(S.mem) + 1, LAMBDA retval :
         Bind([S EXCEPT !.mem = Append(@,
                  [NewElement EXCEPT !.property = S.mem[element].property
                                   , !.text     = S.mem[element].text
                                   , !.type     = S.mem[element].type])], LAMBDA S1 :
         IF S.mem[element].child # Null
         THEN Bind(element_copy_all_(S1, S.mem[element].child), LAMBDA c :
                   [ s |-> IF Ok(c.s) THEN [c.s EXCEPT !.mem[retval].child = c.element] ELSE c.s
                   , element |-> retval ])
         ELSE [s |-> S1, element |-> retval]))

copy_all_loop_(S, element, retval, tail) ==
    IF element = Null \/ ~Ok(S) THEN [s |-> S, element |-> retval]
    ELSE Bind(element_copy_(S, element), LAMBDA t :
         IF ~Ok(t.s) THEN [s |-> t.s, element |-> retval]
         ELSE IF retval = Null
         THEN copy_all_loop_(t.s, S.mem[element].next, t.element, t.element)
         ELSE copy_all_loop_(element_append(t.s, tail, t.element).s, S.mem[element].next, retval, t.element))

element_copy_all_(S, element) == copy_all_loop_(S, element, Null, Null)

RECURSIVE array_copy_(_, _)
\* The deep copy of a vector of chains; returns the copy and the new state.
array_copy_(S, array_orig) ==
    IF array_orig = <<>> \/ ~Ok(S) THEN [s |-> S, array |-> <<>>]
    ELSE Bind(element_copy_all_(S, Head(array_orig)), LAMBDA c :
         Bind(array_copy_(c.s, Tail(array_orig)), LAMBDA r :
              [s |-> r.s, array |-> <<c.element>> \o r.array]))

RECURSIVE map_copy_(_, _)
map_copy_(S, map_orig) ==
    IF DOMAIN map_orig = {} \/ ~Ok(S) THEN [s |-> S, map |-> EmptyMap]
    ELSE Bind(CHOOSE k \in DOMAIN map_orig : TRUE, LAMBDA name :
         Bind(element_copy_all_(S, map_orig[name]), LAMBDA c :
         Bind(map_copy_(c.s, MapErase(map_orig, name)), LAMBDA r :
              [s |-> r.s, map |-> MapPut(r.map, name, c.element)])))

(***************************************************************************)
(* The registries of a ZText object                                        *)
(***************************************************************************)
variable(S, name) == IF Contains(S.zt.variable, name) THEN S.zt.variable[name] ELSE Null

\* variable_set as it would be if the read-only flag also guarded the registry
\* interface: a call on a locked name changes nothing.
variable_set_guarded_(S, name, element, read_only) ==
    IF Contains(S.zt.variable_readonly, name) /\ S.zt.variable_readonly[name] = TRUE
    THEN S
    ELSE Bind(IF Contains(S.zt.variable, name)
              THEN element_destroy_all(S, Local(S.zt.variable[name]))
              ELSE S, LAMBDA S1 :
         IF ~Ok(S1) THEN S1
         ELSE [S1 EXCEPT !.zt.variable = MapPut(@, name, element)
                       , !.zt.variable_readonly = MapPut(@, name, read_only)])

variable_set(S, name, element, read_only) ==
    Bind(IF Contains(S.zt.variable, name)
         THEN element_destroy_all(S, Local(S.zt.variable[name]))
         ELSE S, LAMBDA S1 :
    IF ~Ok(S1) THEN S1
    ELSE [S1 EXCEPT !.zt.variable = MapPut(@, name, element)
                  , !.zt.variable_readonly = MapPut(@, name, read_only)])

array(S, name, index) ==
    IF ~Contains(S.zt.array, name) THEN Null
    ELSE IF index >= Len(S.zt.array[name]) THEN Null
    ELSE S.zt.array[name][index + 1]

array_set(S, name, array_, read_only) ==
    Bind(IF Contains(S.zt.array, name) THEN array_destroy_(S, S.zt.array[name]) ELSE S, LAMBDA S1 :
    IF ~Ok(S1) THEN S1
    ELSE [S1 EXCEPT !.zt.array = MapPut(@, name, array_)
                  , !.zt.array_readonly = MapPut(@, name, read_only)])

map(S, name, key) ==
    IF ~Contains(S.zt.map, name) THEN Null
    ELSE IF ~Contains(S.zt.map[name], key) THEN Null
    ELSE S.zt.map[name][key]

map_set(S, name, map_, read_only) ==
    Bind(IF Contains(S.zt.map, name) THEN map_destroy_(S, S.zt.map[name]) ELSE S, LAMBDA S1 :
    IF ~Ok(S1) THEN S1
    ELSE [S1 EXCEPT !.zt.map = MapPut(@, name, map_)
                  , !.zt.map_readonly = MapPut(@, name, read_only)])

\* ztext->command[name] = lambda
command_set(S, name, lambda) == [S EXCEPT !.zt.command = MapPut(@, name, lambda)]

(***************************************************************************)
(* Evaluation                                                              *)
(***************************************************************************)
RECURSIVE escape_sequence_loop_(_, _)
\* The while loop of escape_sequence_remove_, index 0-based.
escape_sequence_loop_(string, index) ==
    IF ~(index < Len(string)) THEN string
    ELSE IF At(string, index) # Token_Escape THEN escape_sequence_loop_(string, index + 1)
    ELSE IF (index + 2) < Len(string)
         THEN IF At(string, index + 1) = Token_Begin /\ At(string, index + 2) = Token_Begin
              THEN escape_sequence_loop_(Erase1(string, index), index + 2)
              ELSE IF At(string, index + 1) = Token_End /\ At(string, index + 2) = Token_End
              THEN escape_sequence_loop_(Erase1(string, index), index + 2)
              ELSE escape_sequence_loop_(string, index + 1)
         ELSE escape_sequence_loop_(string, index + 1)

escape_sequence_remove_(string) == escape_sequence_loop_(string, 0)

\* std::string key = element->property[""]; operator[] inserts the key.
property_key_(S, element) ==
    IF Contains(S.mem[element].property, <<>>) THEN S
    ELSE [S EXCEPT !.mem[element].property = MapPut(@, <<>>, <<>>)]

RECURSIVE eval(_, _, _, _), eval_loop_(_, _, _, _, _), element_eval_variable_(_, _, _), element_eval_array_(_, _, _), element_eval_map_(_, _, _), element_eval_command_(_, _, _)
\* The set path of element_eval_array_: the copy of the literal is
\* registered after the selected value has been evaluated.
array_store_(r, element) ==
    IF ~Ok(r.s) THEN r
    ELSE IF ~Live(r.s, element) THEN [s |-> Fault(r.s, "uaf"), out |-> r.out]
    ELSE Bind(array_copy_(r.s, r.s.mem[element].array), LAMBDA c :
              [s |-> array_set(c.s, r.s.mem[element].text, c.array, FALSE), out |-> r.out])

element_eval_array_(S, element, depth) ==
    Bind(property_key_(S, element), LAMBDA S1 :
    Bind(S1.mem[element].property[<<>>], LAMBDA key :
    Bind(S1.mem[element].array, LAMBDA literal :
    Bind(IF key = <<>> THEN Len(literal) ELSE Stoul(key).value, LAMBDA index :
    IF key # <<>> /\ ~Stoul(key).ok THEN [s |-> Fault(S1, "terminate"), out |-> <<>>]
    ELSE IF literal = <<>>
    THEN eval(S1, array(S1, S1.mem[element].text, index), TRUE, depth + 1)
    ELSE IF Contains(S1.zt.array_readonly, S1.mem[element].text)
            /\ S1.zt.array_readonly[S1.mem[element].text] = TRUE
    THEN eval(S1, array(S1, S1.mem[element].text, index), TRUE, depth + 1)
    ELSE array_store_( IF index < Len(literal)
                       THEN eval(S1, literal[index + 1], TRUE, depth + 1)
                       ELSE [s |-> S1, out |-> <<>>]
                     , element )))))

\* A registered callback.  "content" is the callback of the tests and the
\* examples: the evaluation of the command's content followed by a mark.
\* Any other callback returns a fixed string, the one it is named by.
command_call_(S, callback, element, depth) ==
    IF callback = "content"
    THEN Bind(eval(S, S.mem[element].child, TRUE, depth + 1), LAMBDA r :
              [s |-> r.s, out |-> r.out \o <<"X">>])
    ELSE [s |-> S, out |-> <<callback>>]

\* An engine that evaluates the content of a command itself, ahead of the
\* callback.
element_eval_command_eager_(S, element, depth) ==
    Bind(eval(S, S.mem[element].child, TRUE, depth + 1), LAMBDA r :
    IF ~Ok(r.s) THEN r
    ELSE IF ~Contains(r.s.zt.command, r.s.mem[element].text)
    THEN [s |-> r.s, out |-> r.out]
    ELSE Bind(command_call_(r.s, r.s.zt.command[r.s.mem[element].text], element, depth), LAMBDA c :
              [s |-> c.s, out |-> r.out \o c.out]))

element_eval_command_(S, element, depth) ==
    IF ~Contains(S.zt.command, S.mem[element].text)
    THEN [s |-> S, out |-> <<>>]
    ELSE command_call_(S, S.zt.command[S.mem[element].text], element, depth)

\* The set path of element_eval_map_: the copy of the literal is registered
\* after the selected value has been evaluated.
map_store_(r, element) ==
    IF ~Ok(r.s) THEN r
    ELSE IF ~Live(r.s, element) THEN [s |-> Fault(r.s, "uaf"), out |-> r.out]
    ELSE Bind(map_copy_(r.s, r.s.mem[element].map), LAMBDA c :
              [s |-> map_set(c.s, r.s.mem[element].text, c.map, FALSE), out |-> r.out])

element_eval_map_(S, element, depth) ==
    Bind(property_key_(S, element), LAMBDA S1 :
    Bind(S1.mem[element].property[<<>>], LAMBDA key :
    Bind(S1.mem[element].map, LAMBDA literal :
    IF DOMAIN literal = {}
    THEN eval(S1, map(S1, S1.mem[element].text, key), TRUE, depth + 1)
    ELSE IF Contains(S1.zt.map_readonly, S1.mem[element].text)
            /\ S1.zt.map_readonly[S1.mem[element].text] = TRUE
    THEN eval(S1, map(S1, S1.mem[element].text, key), TRUE, depth + 1)
    ELSE map_store_( IF ~Contains(literal, key)
                     THEN [s |-> S1, out |-> <<>>]
                     ELSE eval(S1, literal[key], TRUE, depth + 1)
                   , element ))))

\* The set path as it would be if the registry kept the evaluated string
\* instead of a copy of the chain.
variable_store_frozen_(S, element, depth) ==
    Bind(eval(S, S.mem[element].child, TRUE, depth + 1), LAMBDA r :
    IF ~Ok(r.s) THEN r
    ELSE Bind(element_text_create(r.s, r.out), LAMBDA c :
              [s |-> variable_set(c.s, r.s.mem[element].text, c.element, FALSE), out |-> r.out]))

\* The set path as it would be if the copy were registered before the child
\* is evaluated.
variable_store_early_(S, element, depth) ==
    Bind(element_copy_all_(S, S.mem[element].child), LAMBDA c :
    Bind(variable_set(c.s, S.mem[element].text, c.element, FALSE), LAMBDA S1 :
    IF ~Ok(S1) THEN [s |-> S1, out |-> <<>>]
    ELSE eval(S1, S1.mem[element].child, TRUE, depth + 1)))

\* The set path as it would be if the child chain itself were registered
\* instead of a copy of it.
variable_store_shared_(S, element, depth) ==
    Bind(eval(S, S.mem[element].child, TRUE, depth + 1), LAMBDA r :
    IF ~Ok(r.s) THEN r
    ELSE IF ~Live(r.s, element) THEN [s |-> Fault(r.s, "uaf"), out |-> r.out]
    ELSE [ s   |-> [r.s EXCEPT !.zt.variable = MapPut(@, r.s.mem[element].text, r.s.mem[element].child)
                             , !.zt.variable_readonly = MapPut(@, r.s.mem[element].text, FALSE)]
         , out |-> r.out ])

\* The tail of element_eval_variable_ for a set occurrence that is not
\* locked: evaluate the child, then store a copy of it.
variable_store_(S, element, depth) ==
    Bind(eval(S, S.mem[element].child, TRUE, depth + 1), LAMBDA r :
    IF ~Ok(r.s) THEN r
    ELSE IF ~Live(r.s, element) THEN [s |-> Fault(r.s, "uaf"), out |-> r.out]
    ELSE Bind(element_copy_all_(r.s, r.s.mem[element].child), LAMBDA c :
         Bind(variable_set(c.s, r.s.mem[element].text, c.element, FALSE), LAMBDA S2 :
         IF ~Ok(S2) THEN [s |-> S2, out |-> r.out]
         \* ztext->variable[element->text] = content reads element again
         ELSE IF ~Live(S2, element) THEN [s |-> Fault(S2, "uaf"), out |-> r.out]
         ELSE [ s   |-> [S2 EXCEPT !.zt.variable = MapPut(@, S2.mem[element].text, c.element)]
              , out |-> r.out ])))

element_eval_variable_(S, element, depth) ==
    IF S.mem[element].child = Null
    THEN eval(S, variable(S, S.mem[element].text), TRUE, depth + 1)
    ELSE IF Contains(S.zt.variable_readonly, S.mem[element].text)
            /\ S.zt.variable_readonly[S.mem[element].text] = TRUE
    THEN eval(S, variable(S, S.mem[element].text), TRUE, depth + 1)
    ELSE variable_store_(S, element, depth)

\* The end of one round of the loop of eval: r is what the element
\* evaluated to, retval the string built before it.
eval_next_(r, element, to_end, depth, retval) ==
    IF ~Ok(r.s) THEN [s |-> r.s, out |-> retval \o r.out]
    ELSE IF to_end = FALSE THEN [s |-> r.s, out |-> retval \o r.out]
    \* element->next is read after the element has been evaluated
    ELSE IF ~Live(r.s, element) THEN [s |-> Fault(r.s, "uaf"), out |-> retval \o r.out]
    ELSE IF r.s.mem[element].next = Null THEN [s |-> r.s, out |-> retval \o r.out]
    ELSE eval_loop_(r.s, r.s.mem[element].next, to_end, depth, retval \o r.out)

\* The loop of eval as it would be if the escape sequences of a Text element
\* were removed in place.
eval_loop_inplace_(S, element, to_end, depth, retval) ==
    IF ~Live(S, element) THEN [s |-> Fault(S, "uaf"), out |-> retval]
    ELSE eval_next_( CASE S.mem[element].type = "Text" ->
                            [ s   |-> [S EXCEPT !.mem[element].text = escape_sequence_remove_(@)]
                            , out |-> escape_sequence_remove_(S.mem[element].text) ]
                       [] S.mem[element].type = "Variable" -> element_eval_variable_(S, element, depth)
                       [] S.mem[element].type = "Command"  -> element_eval_command_(S, element, depth)
                       [] S.mem[element].type = "Map"      -> element_eval_map_(S, element, depth)
                       [] S.mem[element].type = "Array"    -> element_eval_array_(S, element, depth)
                   , element, to_end, depth, retval )

\* The while(true) loop of eval; retval is the string built so far.
eval_loop_(S, element, to_end, depth, retval) ==
    IF ~Live(S, element) THEN [s |-> Fault(S, "uaf"), out |-> retval]
    ELSE eval_next_( CASE S.mem[element].type = "Text" ->
                            [s |-> S, out |-> escape_sequence_remove_(S.mem[element].text)]
                       [] S.mem[element].type = "Variable" -> element_eval_variable_(S, element, depth)
                       [] S.mem[element].type = "Command"  -> element_eval_command_(S, element, depth)
                       [] S.mem[element].type = "Map"      -> element_eval_map_(S, element, depth)
                       [] S.mem[element].type = "Array"    -> element_eval_array_(S, element, depth)
                   , element, to_end, depth, retval )

\* depth counts the nested calls of eval; beyond MaxDepth the call stack is
\* exhausted.
eval(S, element, to_end, depth) ==
    IF ~Ok(S) THEN [s |-> S, out |-> <<>>]
    ELSE IF element = Null THEN [s |-> S, out |-> <<>>]
    ELSE IF depth > MaxDepth THEN [s |-> Fault(S, "overflow"), out |-> <<>>]
    ELSE eval_loop_(S, element, to_end, depth, <<>>)

(***************************************************************************)
(* Building element trees through the element interface, as parse_token_   *)
(* does for every token it has scanned                                     *)
(***************************************************************************)
RECURSIVE parent_walk_(_, _, _, _)
\* while(content != nullptr) { content->parent = element; content = content->next; }
parent_walk_(S, content, element, fuel) ==
    IF content = Null \/ ~Ok(S) THEN S
    ELSE IF ~Live(S, content) THEN Fault(S, "uaf")
    ELSE IF fuel = 0 THEN Fault(S, "hang")
    ELSE parent_walk_([S EXCEPT !.mem[content].parent = element], S.mem[content].next, element, fuel - 1)

\* The end of element_variable_set and of element_command_content_set: the
\* old content is gone, the new content is linked.
content_link_(S1, element, content) ==
    IF ~Ok(S1) THEN [s |-> S1, error |-> "Error_None"]
    ELSE Bind(parent_walk_(S1, content, element, Len(S1.mem)), LAMBDA S2 :
              [ s |-> IF Ok(S2) THEN [S2 EXCEPT !.mem[element].child = content] ELSE S2
              , error |-> "Error_None" ])

element_variable_set(S, element, content) ==
    IF ~Ok(S) THEN [s |-> S, error |-> "Error_None"]
    ELSE IF element = Null THEN [s |-> S, error |-> "Error_Invalid_Parameter"]
    ELSE IF ~Live(S, element) THEN [s |-> Fault(S, "uaf"), error |-> "Error_None"]
    ELSE IF S.mem[element].type # "Variable" THEN [s |-> S, error |-> "Error_Element_Type_Not_Variable"]
    ELSE IF content # Null /\ ~Live(S, content) THEN [s |-> Fault(S, "uaf"), error |-> "Error_None"]
    ELSE IF content # Null /\ S.mem[content].parent # Null THEN [s |-> S, error |-> "Error_Element_In_Use"]
    ELSE content_link_(element_destroy_all(S, ChildOf(element)), element, content)

element_command_content_set(S, element, content) ==
    IF ~Ok(S) THEN [s |-> S, error |-> "Error_None"]
    ELSE IF element = Null THEN [s |-> S, error |-> "Error_Invalid_Parameter"]
    ELSE IF ~Live(S, element) THEN [s |-> Fault(S, "uaf"), error |-> "Error_None"]
    ELSE IF S.mem[element].type # "Command" THEN [s |-> S, error |-> "Error_Element_Type_Not_Command"]
    ELSE IF content = Null THEN [s |-> Fault(S, "null"), error |-> "Error_None"]
    ELSE IF ~Live(S, content) THEN [s |-> Fault(S, "uaf"), error |-> "Error_None"]
    ELSE IF S.mem[content].parent # Null THEN [s |-> S, error |-> "Error_Element_In_Use"]
    ELSE content_link_(element_destroy_all(S, ChildOf(element)), element, content)

(***************************************************************************)
(* Setting the data of an element                                          *)
(***************************************************************************)
\* element_array_set as it would be if the old literal were destroyed
\* before the new one is looked at.
element_array_set_hasty_(S, element, array_) ==
    IF ~Ok(S) THEN [s |-> S, error |-> "Error_None"]
    ELSE IF element = Null THEN [s |-> S, error |-> "Error_Invalid_Parameter"]
    ELSE IF ~Live(S, element) THEN [s |-> Fault(S, "uaf"), error |-> "Error_None"]
    ELSE IF S.mem[element].type # "Array" THEN [s |-> S, error |-> "Error_Element_Type_Not_Array"]
    ELSE Bind(array_destroy_(S, S.mem[element].array), LAMBDA S1 :
         Bind(IF Ok(S1) THEN [S1 EXCEPT !.mem[element].array = <<>>] ELSE S1, LAMBDA S2 :
         IF array_ = <<>> THEN [s |-> S2, error |-> "Error_Invalid_Parameter"]
         ELSE IF \E i \in 1..Len(array_) : array_[i] = Null
         THEN [s |-> S2, error |-> "Error_Array_Contains_Invalid_Element"]
         ELSE [ s |-> IF Ok(S2) THEN [S2 EXCEPT !.mem[element].array = array_] ELSE S2
              , error |-> "Error_None" ]))

element_array_set(S, element, array_) ==
    IF ~Ok(S) THEN [s |-> S, error |-> "Error_None"]
    ELSE IF element = Null THEN [s |-> S, error |-> "Error_Invalid_Parameter"]
    ELSE IF ~Live(S, element) THEN [s |-> Fault(S, "uaf"), error |-> "Error_None"]
    ELSE IF S.mem[element].type # "Array" THEN [s |-> S, error |-> "Error_Element_Type_Not_Array"]
    ELSE IF array_ = <<>> THEN [s |-> S, error |-> "Error_Invalid_Parameter"]
    ELSE IF \E i \in 1..Len(array_) : array_[i] = Null
    THEN [s |-> S, error |-> "Error_Array_Contains_Invalid_Element"]
    ELSE Bind(array_destroy_(S, S.mem[element].array), LAMBDA S1 :
              [ s |-> IF Ok(S1) THEN [S1 EXCEPT !.mem[element].array = array_] ELSE S1
              , error |-> "Error_None" ])

RECURSIVE to_string(_)
\* std::to_string(index)
to_string(index) ==
    IF index < 10 THEN <<(<<"0", "1", "2", "3", "4", "5", "6", "7", "8", "9">>)[index + 1]>>
    ELSE to_string(index \div 10) \o to_string(index % 10)

element_array_index_set(S, element, index) ==
    IF ~Ok(S) THEN [s |-> S, error |-> "Error_None"]
    ELSE IF element = Null THEN [s |-> S, error |-> "Error_Invalid_Parameter"]
    ELSE IF ~Live(S, element) THEN [s |-> Fault(S, "uaf"), error |-> "Error_None"]
    ELSE IF S.mem[element].type # "Array" THEN [s |-> S, error |-> "Error_Element_Type_Not_Array"]
    ELSE [ s |-> [S EXCEPT !.mem[element].property = MapPut(@, <<>>, to_string(index))]
         , error |-> "Error_None" ]

\* The loop of element_map_set over the entries of the map, in the order
\* of their names: the empty name is the first entry, and the name of an
\* entry is looked at before its element.
map_entries_(map_) ==
    IF Contains(map_, <<>>) THEN "Error_Map_Contains_Invalid_Name"
    ELSE IF \E name \in DOMAIN map_ : map_[name] = Null THEN "Error_Map_Contains_Invalid_Element"
    ELSE "Error_None"

element_map_set(S, element, map_) ==
    IF ~Ok(S) THEN [s |-> S, error |-> "Error_None"]
    ELSE IF element = Null THEN [s |-> S, error |-> "Error_Invalid_Parameter"]
    ELSE IF ~Live(S, element) THEN [s |-> Fault(S, "uaf"), error |-> "Error_None"]
    ELSE IF S.mem[element].type # "Map" THEN [s |-> S, error |-> "Error_Element_Type_Not_Map"]
    ELSE IF DOMAIN map_ = {} THEN [s |-> S, error |-> "Error_Invalid_Parameter"]
    ELSE IF map_entries_(map_) # "Error_None" THEN [s |-> S, error |-> map_entries_(map_)]
    ELSE Bind(map_destroy_(S, S.mem[element].map), LAMBDA S1 :
              [ s |-> IF Ok(S1) THEN [S1 EXCEPT !.mem[element].map = map_] ELSE S1
              , error |-> "Error_None" ])

element_map_key_set(S, element, index) ==
    IF ~Ok(S) THEN [s |-> S, error |-> "Error_None"]
    ELSE IF element = Null THEN [s |-> S, error |-> "Error_Invalid_Parameter"]
    ELSE IF ~Live(S, element) THEN [s |-> Fault(S, "uaf"), error |-> "Error_None"]
    ELSE IF S.mem[element].type # "Map" THEN [s |-> S, error |-> "Error_Element_Type_Not_Map"]
    ELSE IF index = <<>> THEN [s |-> S, error |-> "Error_Invalid_Parameter"]
    ELSE [ s |-> [S EXCEPT !.mem[element].property = MapPut(@, <<>>, index)]
         , error |-> "Error_None" ]

element_text_set(S, element, text) ==
    IF ~Ok(S) THEN [s |-> S, error |-> "Error_None"]
    ELSE IF element = Null THEN [s |-> S, error |-> "Error_Invalid_Parameter"]
    ELSE IF ~Live(S, element) THEN [s |-> Fault(S, "uaf"), error |-> "Error_None"]
    ELSE IF S.mem[element].type # "Text" THEN [s |-> S, error |-> "Error_Element_Type_Not_Text"]
    ELSE [s |-> [S EXCEPT !.mem[element].text = text], error |-> "Error_None"]

\* Descriptions of elements: what a token of the source text stands for.
TextOf(text) == [type |-> "Text", text |-> text, key |-> <<>>, child |-> <<>>, array |-> <<>>, map |-> EmptyMap]

VarGet(name) == [TextOf(name) EXCEPT !.type = "Variable"]

VarSet(name, content) == [TextOf(name) EXCEPT !.type = "Variable", !.child = content]

ArrGet(name, index) == [TextOf(name) EXCEPT !.type = "Array", !.key = index]

ArrSet(name, index, literal) == [TextOf(name) EXCEPT !.type = "Array", !.key = index, !.array = literal]

MapGet(name, key) == [TextOf(name) EXCEPT !.type = "Map", !.key = key]

MapSet(name, key, literal) == [TextOf(name) EXCEPT !.type = "Map", !.key = key, !.map = literal]

Cmd(name, content) == [TextOf(name) EXCEPT !.type = "Command", !.child = content]

RECURSIVE build_chain_(_, _, _, _), build_element_(_, _), build_array_(_, _, _), build_map_(_, _, _)
\* The token branches of parse_token_: create the element, then its
\* selector, literal or content.
build_element_(S, a) ==
    CASE a.type = "Text" -> element_text_create(S, a.text)
      [] a.type = "Variable" ->
            Bind(element_variable_create(S, a.text), LAMBDA c :
            IF a.child = <<>> THEN c
            ELSE Bind(build_chain_(c.s, a.child, Null, Null), LAMBDA b :
                      [s |-> element_variable_set(b.s, c.element, b.element).s, element |-> c.element]))
      [] a.type = "Command" ->
            Bind(element_command_create(S, a.text), LAMBDA c :
            IF a.child = <<>> THEN c
            ELSE Bind(build_chain_(c.s, a.child, Null, Null), LAMBDA b :
                      [s |-> element_command_content_set(b.s, c.element, b.element).s, element |-> c.element]))
      [] a.type = "Array" ->
            Bind(element_array_create(S, a.text), LAMBDA c :
                 [ s |-> build_array_( IF a.key # <<>>
                                       THEN [c.s EXCEPT !.mem[c.element].property = MapPut(@, <<>>, a.key)]
                                       ELSE c.s
                                     , c.element, a.array )
                 , element |-> c.element ])
      [] a.type = "Map" ->
            Bind(element_map_create(S, a.text), LAMBDA c :
                 [ s |-> build_map_( IF a.key # <<>>
                                     THEN [c.s EXCEPT !.mem[c.element].property = MapPut(@, <<>>, a.key)]
                                     ELSE c.s
                                   , c.element, a.map )
                 , element |-> c.element ])

\* element->array.push_back(e) for every value of the literal
build_array_(S, element, literal) ==
    IF literal = <<>> THEN S
    ELSE Bind(build_chain_(S, Head(literal), Null, Null), LAMBDA b :
         build_array_([b.s EXCEPT !.mem[element].array = Append(@, b.element)], element, Tail(literal)))

\* element->map[key] = the chain of the value, for every pair of the literal
build_map_(S, element, literal) ==
    IF DOMAIN literal = {} THEN S
    ELSE Bind(CHOOSE k \in DOMAIN literal : TRUE, LAMBDA key :
         Bind(build_chain_(S, literal[key], Null, Null), LAMBDA b :
         build_map_([b.s EXCEPT !.mem[element].map = MapPut(@, key, b.element)], element, MapErase(literal, key))))

\* The loop of parse_: the first element is the head, every other element
\* is appended to the tail.
build_chain_(S, chain, element_head, element_tail) ==
    IF chain = <<>> THEN [s |-> S, element |-> element_head]
    ELSE Bind(build_element_(S, Head(chain)), LAMBDA b :
         IF element_head = Null
         THEN build_chain_(b.s, Tail(chain), b.element, b.element)
         ELSE build_chain_(element_append(b.s, element_tail, b.element).s, Tail(chain), element_head, b.element))

(***************************************************************************)
(* Parsing                                                                 *)
(***************************************************************************)
Identifier_Command == "("

Identifier_Variable == "$"

Identifier_Array == "@"

Identifier_Map == "#"

\* std::isspace in the "C" locale
IsSpace(c) == c \in {" ", "\t", "\n", "\r", "\f"}

\* std::isalnum in the "C" locale
IsAlnum(c) ==
    \/ IsDigit(c)
    \/ c \in { "a", "b", "c", "d", "e", "f", "g", "h", "i", "j", "k", "l", "m"
             , "n", "o", "p", "q", "r", "s", "t", "u", "v", "w", "x", "y", "z" }
    \/ c \in { "A", "B", "C", "D", "E", "F", "G", "H", "I", "J", "K", "L", "M"
             , "N", "O", "P", "Q", "R", "S", "T", "U", "V", "W", "X", "Y", "Z" }

is_valid_token_name_character_(c) == IsAlnum(c) \/ c = "_"

\* string[index - 1]: below index 0 the read is out of the string and
\* yields whatever the build finds there.
AtBefore(string, index, under) == IF index = 0 THEN under ELSE At(string, index - 1)

RECURSIVE find_char_(_, _, _, _)
find_char_(string, ch, index, end) ==
    IF index > end THEN index
    ELSE IF At(string, index) = ch /\ At(string, index - 1) # Token_Escape THEN index
    ELSE find_char_(string, ch, index + 1, end)

RECURSIVE find_char_loop_(_, _, _, _, _, _)
\* The while loop of find_char_end_.
find_char_loop_(string, char_begin, char_end, index, index_end, depth) ==
    IF index > index_end THEN index
    ELSE LET opened == At(string, index) = char_begin /\ At(string, index - 1) # Token_Escape
             closed == At(string, index) = char_end /\ At(string, index - 1) # Token_Escape
             deeper == IF opened THEN depth + 1 ELSE depth
         IN  IF closed /\ deeper = 0 THEN index
             ELSE find_char_loop_( string, char_begin, char_end, index + 1, index_end
                                 , IF closed THEN deeper - 1 ELSE deeper )

find_char_end_(string, char_begin, char_end, index_begin, index_end) ==
    find_char_loop_(string, char_begin, char_end, index_begin + 1, index_end, 0)

RECURSIVE whitespace_skip_leading_(_, _)
whitespace_skip_leading_(string, index) ==
    IF index < Len(string) /\ IsSpace(At(string, index))
    THEN whitespace_skip_leading_(string, index + 1)
    ELSE index

RECURSIVE whitespace_skip_trailing_(_, _)
whitespace_skip_trailing_(string, index) ==
    IF index > 0 /\ IsSpace(At(string, index))
    THEN whitespace_skip_trailing_(string, index - 1)
    ELSE index

RECURSIVE whitespace_clean_loop_(_, _)
\* The outer while loop of whitespace_clean_: the run of whitespace that
\* starts at index_1 is replaced by one space.
whitespace_clean_loop_(string, index_1) ==
    IF index_1 >= Len(string) THEN string
    ELSE IF ~IsSpace(At(string, index_1)) THEN whitespace_clean_loop_(string, index_1 + 1)
    ELSE whitespace_clean_loop_( SubSeq(string, 1, index_1) \o <<" ">>
                                    \o SubSeq(string, whitespace_skip_leading_(string, index_1 + 1) + 1, Len(string))
                               , index_1 + 1 )

\* whitespace_clean_ as it would be if a leading run of whitespace were
\* dropped.
whitespace_clean_trimmed_(string) ==
    whitespace_clean_loop_(SubSeq(string, whitespace_skip_leading_(string, 0) + 1, Len(string)), 0)

whitespace_clean_(string) == whitespace_clean_loop_(string, 0)

\* string.substr(begin, end - begin + 1): a count below zero wraps around
\* to a count beyond every size, and substr() stops at the end of the string.
substr_(string, begin, end) ==
    IF end - begin + 1 >= 0 /\ end < Len(string)
    THEN SubSeq(string, begin + 1, end + 1)
    ELSE SubSeq(string, begin + 1, Len(string))

RECURSIVE parse_array_loop_(_, _, _, _)
\* The while loop of parse_(string, begin, end, VectorString&).
parse_array_loop_(string, kv_begin, end, array_) ==
    IF kv_begin >= end THEN [error |-> "Error_None", array |-> array_]
    ELSE LET found  == find_char_(string, ",", kv_begin + 1, end)
             kv_end == IF found > end THEN end ELSE found
         IN  IF kv_begin + 1 >= kv_end
             THEN [error |-> "Error_Parser_Array_Value_Missing", array |-> array_]
             ELSE parse_array_loop_( string, kv_end, end
                                   , Append(array_, whitespace_clean_(substr_( string
                                         , whitespace_skip_leading_(string, kv_begin + 1)
                                         , whitespace_skip_trailing_(string, kv_end - 1) ))) )

\* parse_(string, begin, end, VectorString&)
parse_array_(string, begin, end) ==
    LET kv_begin == whitespace_skip_leading_(string, begin)
        kv_end   == whitespace_skip_trailing_(string, end)
    IN  IF kv_begin + 1 = kv_end THEN [error |-> "Error_None", array |-> <<>>]
        ELSE IF kv_begin > kv_end \/ At(string, kv_begin) # "["
        THEN [error |-> "Error_Parser_Array_Begin_Marker_Missing", array |-> <<>>]
        ELSE IF At(string, kv_end) # "]"
        THEN [error |-> "Error_Parser_Array_End_Marker_Missing", array |-> <<>>]
        ELSE parse_array_loop_(string, kv_begin, kv_end, <<>>)

parse_key_value_(string, begin, end) ==
    LET index       == find_char_(string, "=", begin, end)
        key_begin   == whitespace_skip_leading_(string, begin + 1)
        key_end     == whitespace_skip_trailing_(string, index - 1)
        value_begin == whitespace_skip_leading_(string, index + 1)
        value_end   == whitespace_skip_trailing_(string, end - 1)
        key         == whitespace_clean_(substr_(string, key_begin, key_end))
        value       == whitespace_clean_(substr_(string, value_begin, value_end))
    IN  IF index = begin THEN [error |-> "Error_Parser_Map_Key_Missing", key |-> <<>>, value |-> <<>>]
        ELSE IF index > end THEN [error |-> "Error_Parser_Map_Key_Value_Pair_Missing", key |-> <<>>, value |-> <<>>]
        ELSE IF key_begin > key_end THEN [error |-> "Error_Parser_Map_Key_Missing", key |-> <<>>, value |-> <<>>]
        ELSE IF value_begin > value_end THEN [error |-> "Error_Parser_Map_Value_Missing", key |-> <<>>, value |-> <<>>]
        ELSE IF key = <<>> THEN [error |-> "Error_Parser_Map_Key_Missing", key |-> key, value |-> value]
        ELSE IF value = <<>> THEN [error |-> "Error_Parser_Map_Value_Missing", key |-> key, value |-> value]
        ELSE [error |-> "Error_None", key |-> key, value |-> value]

RECURSIVE parse_map_loop_(_, _, _, _)
\* The while loop of ztext::parse(string, begin, end, MapStringString&).
parse_map_loop_(string, kv_begin, end, map_) ==
    IF kv_begin >= end THEN [error |-> "Error_None", map |-> map_]
    ELSE LET found  == find_char_(string, ",", kv_begin + 1, end)
             kv_end == IF found > end THEN end ELSE found
             pair   == parse_key_value_(string, kv_begin, kv_end)
         IN  IF pair.error # "Error_None" THEN [error |-> pair.error, map |-> map_]
             ELSE parse_map_loop_(string, kv_end, end, MapPut(map_, pair.key, pair.value))

\* ztext::parse(string, begin, end, MapStringString&)
parse_map_(string, begin, end) ==
    LET kv_begin == whitespace_skip_leading_(string, begin)
        kv_end   == whitespace_skip_trailing_(string, end)
    IN  IF whitespace_skip_leading_(string, kv_begin + 1) = kv_end THEN [error |-> "Error_None", map |-> EmptyMap]
        ELSE IF kv_begin > kv_end \/ At(string, kv_begin) # "("
        THEN [error |-> "Error_Parser_Map_Begin_Marker_Missing", map |-> EmptyMap]
        ELSE IF At(string, kv_end) # ")"
        THEN [error |-> "Error_Parser_Map_End_Marker_Missing", map |-> EmptyMap]
        ELSE parse_map_loop_(string, kv_begin, kv_end, EmptyMap)

\* ztext::parse(string, MapStringString&)
parse_map(string) ==
    LET begin == whitespace_skip_leading_(string, 0)
        end   == whitespace_skip_trailing_(string, Len(string) - 1)
    IN  IF string = <<>> THEN [error |-> "Error_Parser_No_Text_Found", map |-> EmptyMap]
        ELSE IF begin > end \/ At(string, begin) # "("
        THEN [error |-> "Error_Parser_Map_Begin_Marker_Missing", map |-> EmptyMap]
        ELSE IF At(string, end) # ")"
        THEN [error |-> "Error_Parser_Map_End_Marker_Missing", map |-> EmptyMap]
        ELSE parse_map_(string, begin, end)

\* struct Token
NewToken ==
    [ begin |-> 0, end |-> 0, name_begin |-> 0, name_end |-> 0
    , property_begin |-> 0, property_end |-> 0, content_begin |-> 0, content_end |-> 0
    , type_index |-> 0, type |-> "NUL" ]

RECURSIVE token_name_walk_(_, _, _)
\* while(index < limit && is_valid_token_name_character_(string[index])) index++
token_name_walk_(string, index, limit) ==
    IF index < limit /\ is_valid_token_name_character_(At(string, index))
    THEN token_name_walk_(string, index + 1, limit)
    ELSE index

\* A parser for which a token has no name when it starts with the
\* identifier of a variable, an array or a map or with the end marker, and
\* with nothing else.
parse_token_name_listed_(token, string) ==
    LET index == whitespace_skip_leading_(string, token.begin + 2)
        stop  == token_name_walk_(string, index, Len(string))
    IN  IF At(string, index) \in {Identifier_Variable, Identifier_Array, Identifier_Map, Token_End}
        THEN [token |-> [token EXCEPT !.name_begin = index], error |-> "Error_Parser_Token_Name_Missing"]
        ELSE IF stop = index
        THEN [token |-> [token EXCEPT !.name_begin = index], error |-> "Error_Parser_Token_Name_Invalid"]
        ELSE [token |-> [token EXCEPT !.name_begin = index, !.name_end = stop - 1], error |-> "Error_None"]

parse_token_name_(token, string) ==
    LET index == whitespace_skip_leading_(string, token.begin + 2)
        stop  == token_name_walk_(string, index, Len(string))
    IN  IF At(string, index) \in { Identifier_Variable, Identifier_Array, Identifier_Command
                                 , Identifier_Map, Token_End }
        THEN [token |-> [token EXCEPT !.name_begin = index], error |-> "Error_Parser_Token_Name_Missing"]
        ELSE IF stop = index
        THEN [token |-> [token EXCEPT !.name_begin = index], error |-> "Error_Parser_Token_Name_Invalid"]
        ELSE [token |-> [token EXCEPT !.name_begin = index, !.name_end = stop - 1], error |-> "Error_None"]

parse_token_identifier_(token, string) ==
    LET index == whitespace_skip_leading_(string, token.name_end + 1)
    IN  [ token |-> [token EXCEPT !.type_index = index
                                , !.type = IF At(string, index) \in {Identifier_Array, Identifier_Map, Identifier_Variable}
                                           THEN At(string, index) ELSE Identifier_Command]
        , error |-> "Error_None" ]

\* The end of parse_token_array_ and of parse_token_map_: nothing but
\* whitespace may be left in front of the end marker.
token_dataset_end_(token, string, index, error_data) ==
    IF At(string, whitespace_skip_leading_(string, index)) # Token_End
    THEN [token |-> token, error |-> error_data]
    ELSE [token |-> token, error |-> "Error_None"]

\* parse_token_array_ and parse_token_map_ from the literal on; index is
\* where the selector, if any, has left the scan.
token_dataset_literal_(token, string, index, char_begin, char_end, error_end, error_data) ==
    IF At(string, index) # char_begin THEN token_dataset_end_(token, string, index, error_data)
    ELSE LET found == find_char_end_(string, char_begin, char_end, index, token.end)
         IN  IF found > token.end
             THEN [token |-> [token EXCEPT !.property_begin = index], error |-> error_end]
             ELSE token_dataset_end_( [token EXCEPT !.property_begin = index, !.property_end = found]
                                    , string, found + 1, error_data )

\* The code that parse_token_array_ and parse_token_map_ share.
token_dataset_(token, string, char_begin, char_end, error_end, error_data) ==
    LET index == whitespace_skip_leading_(string, token.type_index + 1)
        stop  == token_name_walk_(string, index + 1, token.end)
    IN  IF At(string, index) = Token_End THEN [token |-> token, error |-> "Error_None"]
        ELSE IF At(string, index) = char_begin
        THEN token_dataset_literal_(token, string, index, char_begin, char_end, error_end, error_data)
        ELSE IF ~is_valid_token_name_character_(At(string, index))
        THEN [token |-> token, error |-> "Error_Parser_Map_Index_Invalid"]
        ELSE token_dataset_literal_( [token EXCEPT !.content_begin = index, !.content_end = stop - 1]
                                   , string, whitespace_skip_leading_(string, stop)
                                   , char_begin, char_end, error_end, error_data )

parse_token_array_(token, string) ==
    token_dataset_( token, string, "[", "]"
                  , "Error_Parser_Array_End_Marker_Missing", "Error_Parser_Array_Contains_Invalid_Data" )

parse_token_map_(token, string) ==
    token_dataset_( token, string, "(", ")"
                  , "Error_Parser_Map_End_Marker_Missing", "Error_Parser_Map_Contains_Invalid_Data" )

\* The end of parse_token_command_ and of parse_token_variable_: what
\* follows index, if it is not the end marker, is the content.
token_content_(token, string, index) ==
    IF At(string, index) = Token_End THEN [token |-> token, error |-> "Error_None"]
    ELSE [ token |-> [token EXCEPT !.content_begin = index
                                 , !.content_end = whitespace_skip_trailing_(string, token.end - 2)]
         , error |-> "Error_None" ]

parse_token_command_(token, string) ==
    IF At(string, token.type_index) = Token_End THEN [token |-> token, error |-> "Error_None"]
    ELSE IF At(string, token.type_index) # "("
    THEN token_content_(token, string, whitespace_skip_leading_(string, token.type_index))
    ELSE LET found == find_char_end_(string, "(", ")", token.type_index, token.end)
         IN  IF found > token.end
             THEN [ token |-> [token EXCEPT !.property_begin = token.type_index]
                  , error |-> "Error_Parser_Command_Property_End_Marker_Missing" ]
             ELSE token_content_( [token EXCEPT !.property_begin = token.type_index, !.property_end = found]
                                , string, whitespace_skip_leading_(string, found + 1) )

parse_token_variable_(token, string) ==
    token_content_(token, string, whitespace_skip_leading_(string, token.type_index + 1))

RECURSIVE parse_text_loop_(_, _, _, _)
\* The while loop of parse_text_: where the text ends, or the end marker
\* that no begin marker precedes.
parse_text_loop_(string, index, end, under) ==
    IF index > end THEN [index |-> index, error |-> "Error_None"]
    ELSE IF /\ At(string, index) = Token_Begin
            /\ index + 1 <= end
            /\ AtBefore(string, index, under) # Token_Escape
            /\ At(string, index + 1) = Token_Begin
    THEN [index |-> index, error |-> "Error_None"]
    ELSE IF /\ At(string, index) = Token_End
            /\ index + 1 <= end
            /\ AtBefore(string, index, under) # Token_Escape
            /\ At(string, index + 1) = Token_End
    THEN [index |-> index, error |-> "Error_Parser_Token_Begin_Marker_Missing"]
    ELSE parse_text_loop_(string, index + 1, end, under)

\* The text that parse_text_ has found ends in front of index.
parse_text_found_(S, text, index) ==
    IF text = <<>>
    THEN [s |-> S, error |-> "Error_Parser_No_Text_Found", begin |-> index, element |-> Null]
    ELSE Bind(element_text_create(S, text), LAMBDA c :
              [s |-> c.s, error |-> "Error_None", begin |-> index, element |-> c.element])

parse_text_(S, string, begin, end, under) ==
    Bind(parse_text_loop_(string, begin, end, under), LAMBDA found :
    IF found.error # "Error_None"
    THEN [s |-> S, error |-> found.error, begin |-> found.index, element |-> Null]
    ELSE parse_text_found_(S, whitespace_clean_(substr_(string, begin, found.index - 1)), found.index))

RECURSIVE token_end_(_, _, _, _)
\* "Find Token End" in parse_token_: the index of the last character of
\* the token, an index beyond end when there is no end marker.
token_end_(string, index_end, end, depth) ==
    IF index_end > end THEN index_end
    ELSE LET opened == /\ At(string, index_end) = Token_Begin
                       /\ index_end + 1 <= end
                       /\ At(string, index_end + 1) = Token_Begin
                       /\ At(string, index_end - 1) # Token_Escape
             index  == IF opened THEN index_end + 1 ELSE index_end
             closed == /\ At(string, index) = Token_End
                       /\ index + 1 <= end
                       /\ At(string, index + 1) = Token_End
                       /\ At(string, index - 1) # Token_Escape
         IN  IF closed /\ ~opened /\ depth = 0 THEN index + 1
             ELSE IF closed THEN token_end_(string, index + 2, end, (IF opened THEN depth + 1 ELSE depth) - 1)
             ELSE token_end_(string, index + 1, end, IF opened THEN depth + 1 ELSE depth)

RECURSIVE parse(_, _, _), parse_loop_(_, _, _, _, _, _, _), parse_token_(_, _, _, _, _)
RECURSIVE token_array_values_(_, _, _, _), token_map_values_(_, _, _, _)
\* for(auto& raw_element : raw_data): the values of an array literal are
\* parsed one by one, the first error ends the parse of the token.
token_array_values_(S, element, raw_data, under) ==
    IF raw_data = <<>> THEN [s |-> S, error |-> "Error_None", element |-> element]
    ELSE Bind(parse(S, Head(raw_data), under), LAMBDA p :
         IF p.error # "Error_None" THEN [s |-> p.s, error |-> p.error, element |-> element]
         ELSE token_array_values_( [p.s EXCEPT !.mem[element].array = Append(@, p.element)]
                                 , element, Tail(raw_data), under ))

\* for(auto& [key, raw_element] : raw_data): parse(raw_element, element->map[key])
token_map_values_(S, element, raw_data, under) ==
    IF DOMAIN raw_data = {} THEN [s |-> S, error |-> "Error_None", element |-> element]
    ELSE Bind(CHOOSE k \in DOMAIN raw_data : TRUE, LAMBDA key :
         Bind(parse(S, raw_data[key], under), LAMBDA p :
         IF p.error # "Error_None"
         THEN [ s |-> [p.s EXCEPT !.mem[element].map = MapPut(@, key, Null)]
              , error |-> p.error, element |-> element ]
         ELSE token_map_values_( [p.s EXCEPT !.mem[element].map = MapPut(@, key, p.element)]
                               , element, MapErase(raw_data, key), under )))

\* element->property[""] = the selector, when the token has one.
token_selector_(c, token, string) ==
    IF token.content_begin = 0 THEN c
    ELSE [c EXCEPT !.s.mem[c.element].property =
                        MapPut(@, <<>>, substr_(string, token.content_begin, token.content_end))]

\* "Token: Array" in parse_token_
token_array_(S, token, string, under) ==
    Bind(token_selector_(element_array_create(S, substr_(string, token.name_begin, token.name_end)), token, string), LAMBDA c :
    IF token.property_begin = 0 THEN [s |-> c.s, error |-> "Error_None", element |-> c.element]
    ELSE token_array_values_( c.s, c.element
                            , parse_array_(string, token.property_begin, token.property_end).array, under ))

\* "Token: Map" in parse_token_
token_map_(S, token, string, under) ==
    Bind(token_selector_(element_map_create(S, substr_(string, token.name_begin, token.name_end)), token, string), LAMBDA c :
    IF token.property_begin = 0 THEN [s |-> c.s, error |-> "Error_None", element |-> c.element]
    ELSE token_map_values_( c.s, c.element
                          , parse_map_(string, token.property_begin, token.property_end).map, under ))

\* void ztext::element_command_property_set(element, property)
element_command_property_set(S, element, property) == [S EXCEPT !.mem[element].property = property]

\* "Token: Command" in parse_token_
token_command_(S, token, string, under) ==
    Bind(element_command_create(S, substr_(string, token.name_begin, token.name_end)), LAMBDA c :
    Bind(IF token.property_begin = 0 THEN c.s
         ELSE element_command_property_set( c.s, c.element
                                          , parse_map_(string, token.property_begin, token.property_end).map ), LAMBDA S1 :
    IF token.content_begin = 0 THEN [s |-> S1, error |-> "Error_None", element |-> c.element]
    ELSE Bind(parse(S1, substr_(string, token.content_begin, token.content_end), under), LAMBDA p :
         IF p.error # "Error_None" THEN [s |-> p.s, error |-> p.error, element |-> c.element]
         ELSE [ s |-> element_command_content_set(p.s, c.element, p.element).s
              , error |-> "Error_None", element |-> c.element ])))

\* "Token: Variable" in parse_token_
token_variable_(S, token, string, under) ==
    Bind(element_variable_create(S, substr_(string, token.name_begin, token.name_end)), LAMBDA c :
    IF token.content_begin = 0 THEN [s |-> c.s, error |-> "Error_None", element |-> c.element]
    ELSE Bind(parse(c.s, substr_(string, token.content_begin, token.content_end), under), LAMBDA p :
         IF p.error # "Error_None" THEN [s |-> p.s, error |-> p.error, element |-> c.element]
         ELSE [ s |-> element_variable_set(p.s, c.element, p.element).s
              , error |-> "Error_None", element |-> c.element ]))

\* parse_token_ once the name and the identifier are known; the results of
\* parse_token_array_, _command_, _map_ and _variable_ are not looked at.
token_element_(S, token, string, under) ==
    CASE token.type = Identifier_Array    -> token_array_(S, parse_token_array_(token, string).token, string, under)
      [] token.type = Identifier_Command  -> token_command_(S, parse_token_command_(token, string).token, string, under)
      [] token.type = Identifier_Map      -> token_map_(S, parse_token_map_(token, string).token, string, under)
      [] token.type = Identifier_Variable -> token_variable_(S, parse_token_variable_(token, string).token, string, under)

\* parse_token_ once the end of the token is known.
token_named_(S, string, begin, index_end, named, under) ==
    IF named.error # "Error_None"
    THEN [s |-> S, error |-> named.error, begin |-> named.token.name_begin, element |-> Null]
    ELSE Bind(token_element_(S, parse_token_identifier_(named.token, string).token, string, under), LAMBDA r :
              [ s |-> r.s, error |-> r.error, element |-> r.element
              , begin |-> IF r.error = "Error_None" THEN index_end + 1 ELSE begin ])

parse_token_(S, string, begin, end, under) ==
    Bind(token_end_(string, begin + 2, end, 0), LAMBDA index_end :
    IF index_end > end
    THEN [s |-> S, error |-> "Error_Parser_Token_End_Marker_Missing", begin |-> begin + 2, element |-> Null]
    ELSE token_named_( S, string, begin, index_end
                     , parse_token_name_([NewToken EXCEPT !.begin = begin, !.end = index_end], string), under ))

\* The end of the loop body of parse_: r is what parse_token_ or
\* parse_text_ has returned.
parse_next_(r, string, index_begin, index_end, element_head, element_tail, is_text, under) ==
    IF is_text /\ r.error = "Error_Parser_No_Text_Found"
    THEN IF r.begin = index_begin
         THEN [s |-> Fault(r.s, "hang"), error |-> "Error_None", element |-> element_head]
         ELSE parse_loop_(r.s, string, r.begin, index_end, element_head, element_tail, under)
    ELSE IF r.error # "Error_None"
    THEN [s |-> element_destroy_all(r.s, Local(element_head)), error |-> r.error, element |-> Null]
    ELSE IF element_head = Null
    THEN parse_loop_(r.s, string, r.begin, index_end, r.element, r.element, under)
    ELSE parse_loop_( element_append(r.s, element_tail, r.element).s, string, r.begin, index_end
                    , element_head, r.element, under )

\* The while loop of parse_(string, index_begin, index_end, element_head).
parse_loop_(S, string, index_begin, index_end, element_head, element_tail, under) ==
    IF ~Ok(S) \/ index_begin > index_end
    THEN [s |-> S, error |-> "Error_None", element |-> element_head]
    ELSE IF /\ index_begin + 1 <= index_end
            /\ At(string, index_begin) = Token_Begin
            /\ At(string, index_begin + 1) = Token_Begin
    THEN parse_next_( parse_token_(S, string, index_begin, index_end, under)
                    , string, index_begin, index_end, element_head, element_tail, FALSE, under )
    ELSE parse_next_( parse_text_(S, string, index_begin, index_end, under)
                    , string, index_begin, index_end, element_head, element_tail, TRUE, under )

parse_(S, string, index_begin, index_end, under) ==
    parse_loop_(S, string, index_begin, index_end, Null, Null, under)

\* The end of ztext::parse(string, begin, end, element): r is what parse_
\* has returned.
parse_done_(r) ==
    IF r.error = "Error_Parser_No_Text_Found" \/ (r.error = "Error_None" /\ r.element = Null)
    THEN Bind(element_text_create(r.s, <<>>), LAMBDA c :
              [s |-> c.s, error |-> "Error_None", element |-> c.element])
    ELSE IF r.error # "Error_None"
    THEN [s |-> element_destroy_all(r.s, Local(r.element)), error |-> r.error, element |-> Null]
    ELSE r

\* ztext::parse(string, element) and ztext::parse(string, begin, end, element)
parse(S, string, under) ==
    IF string = <<>>
    THEN Bind(element_text_create(S, <<>>), LAMBDA c :
              [s |-> c.s, error |-> "Error_None", element |-> c.element])
    ELSE parse_done_(parse_(S, string, 0, Len(string) - 1, under))

(***************************************************************************)
(* Erasing and clearing the registries                                     *)
(***************************************************************************)
\* registry.erase(name) once the chains of the entry are destroyed
erased_(S1, registry, name) ==
    IF ~Ok(S1) THEN S1
    ELSE [S1 EXCEPT !.zt[registry] = MapErase(@, name)]

variable_erase(S, name) ==
    IF ~Contains(S.zt.variable, name) THEN S
    ELSE erased_(element_destroy_all(S, Local(S.zt.variable[name])), "variable", name)

array_erase(S, name) ==
    IF ~Contains(S.zt.array, name) THEN S
    ELSE erased_(array_destroy_(S, S.zt.array[name]), "array", name)

map_erase(S, name) ==
    IF ~Contains(S.zt.map, name) THEN S
    ELSE erased_(map_destroy_(S, S.zt.map[name]), "map", name)

RECURSIVE variable_clear_loop_(_, _)
variable_clear_loop_(S, registry) ==
    IF DOMAIN registry = {} \/ ~Ok(S) THEN S
    ELSE LET name == CHOOSE k \in DOMAIN registry : TRUE
         IN  variable_clear_loop_(element_destroy_all(S, Local(registry[name])), MapErase(registry, name))

\* registry.clear() once the chains of every entry are destroyed
cleared_(S1, registry) ==
    IF ~Ok(S1) THEN S1
    ELSE [S1 EXCEPT !.zt[registry] = EmptyMap]

variable_clear(S) == cleared_(variable_clear_loop_(S, S.zt.variable), "variable")

RECURSIVE array_clear_loop_(_, _)
array_clear_loop_(S, registry) ==
    IF DOMAIN registry = {} \/ ~Ok(S) THEN S
    ELSE LET name == CHOOSE k \in DOMAIN registry : TRUE
         IN  array_clear_loop_(array_destroy_(S, registry[name]), MapErase(registry, name))

array_clear(S) == cleared_(array_clear_loop_(S, S.zt.array), "array")

RECURSIVE map_clear_loop_(_, _)
map_clear_loop_(S, registry) ==
    IF DOMAIN registry = {} \/ ~Ok(S) THEN S
    ELSE LET name == CHOOSE k \in DOMAIN registry : TRUE
         IN  map_clear_loop_(map_destroy_(S, registry[name]), MapErase(registry, name))

map_clear(S) == cleared_(map_clear_loop_(S, S.zt.map), "map")

command_clear(S) == [S EXCEPT !.zt.command = EmptyMap]

clear(S) == variable_clear(map_clear(command_clear(array_clear(S))))

(***************************************************************************)
(* The heap between two calls: the elements that the host or a registry    *)
(* can still reach, numbered in the order in which they are reached.  A    *)
(* pointer to a deleted element becomes Dangling; elements that are alive  *)
(* but cannot be reached any more are counted as leaked.                   *)
(***************************************************************************)
Dangling == -1

InSeq(q, x) == \E i \in 1..Len(q) : q[i] = x

RECURSIVE reach_(_, _, _), reach_array_(_, _, _), reach_map_(_, _, _)
reach_(m, element, acc) ==
    IF element \notin 1..Len(m) THEN acc
    ELSE IF ~m[element].live \/ InSeq(acc, element) THEN acc
    ELSE LET a1 == reach_(m, m[element].child, Append(acc, element))
             a2 == reach_array_(m, m[element].array, a1)
             a3 == reach_map_(m, m[element].map, a2)
             a4 == reach_(m, m[element].next, a3)
             a5 == reach_(m, m[element].prev, a4)
         IN  reach_(m, m[element].parent, a5)

reach_array_(m, array_, acc) ==
    IF array_ = <<>> THEN acc
    ELSE reach_array_(m, Tail(array_), reach_(m, Head(array_), acc))

reach_map_(m, map_, acc) ==
    IF DOMAIN map_ = {} THEN acc
    ELSE LET key == CHOOSE k \in DOMAIN map_ : TRUE
         IN  reach_map_(m, MapErase(map_, key), reach_(m, map_[key], acc))

RECURSIVE reach_arrays_(_, _, _), reach_maps_(_, _, _)
reach_arrays_(m, registry, acc) ==
    IF DOMAIN registry = {} THEN acc
    ELSE LET name == CHOOSE k \in DOMAIN registry : TRUE
         IN  reach_arrays_(m, MapErase(registry, name), reach_array_(m, registry[name], acc))

reach_maps_(m, registry, acc) ==
    IF DOMAIN registry = {} THEN acc
    ELSE LET name == CHOOSE k \in DOMAIN registry : TRUE
         IN  reach_maps_(m, MapErase(registry, name), reach_map_(m, registry[name], acc))

Reachable(S, root) ==
    reach_maps_(S.mem, S.zt.map,
        reach_arrays_(S.mem, S.zt.array,
            reach_map_(S.mem, S.zt.variable,
                reach_(S.mem, root, <<>>))))

Renamed(order, p) ==
    IF p = Null THEN Null
    ELSE IF InSeq(order, p) THEN CHOOSE i \in 1..Len(order) : order[i] = p
    ELSE Dangling

RenamedElement(order, e) ==
    [e EXCEPT !.next   = Renamed(order, @)
            , !.prev   = Renamed(order, @)
            , !.child  = Renamed(order, @)
            , !.parent = Renamed(order, @)
            , !.array  = [i \in 1..Len(@) |-> Renamed(order, @[i])]
            , !.map    = [k \in DOMAIN @ |-> Renamed(order, @[k])]]

\* The renumbering of a heap whose reachable elements are listed in order.
Renumbered(S, root, order) ==
    [ mem  |-> [i \in 1..Len(order) |-> RenamedElement(order, S.mem[order[i]])]
    , zt   |-> [S.zt EXCEPT
                  !.variable = [k \in DOMAIN @ |-> Renamed(order, @[k])]
                , !.array    = [k \in DOMAIN @ |-> [i \in 1..Len(@[k]) |-> Renamed(order, @[k][i])]]
                , !.map      = [k \in DOMAIN @ |-> [j \in DOMAIN @[k] |-> Renamed(order, @[k][j])]]]
    , root |-> Renamed(order, root)
    , leak |-> Cardinality({e \in 1..Len(S.mem) : S.mem[e].live /\ ~InSeq(order, e)}) ]

Compact(S, root) == Renumbered(S, root, Reachable(S, root))

(***************************************************************************)
(* The host: one context, and at most one element chain of its own that it *)
(* builds, evaluates any number of times, and destroys.                    *)
(***************************************************************************)
v == <<"v">>

w == <<"w">>

A == <<"a">>

B == <<"b">>

\* {{w$ a}}{{v$ {{w$}}s}}{{w$ b}}{{v$}}
DocCached == <<VarSet(w, <<TextOf(A)>>), VarSet(v, <<VarGet(w), TextOf(<<"s">>)>>), VarSet(w, <<TextOf(B)>>), VarGet(v)>>

\* {{v$ {{w$ {{v$}}}}}}
DocNested == <<VarSet(v, <<VarSet(w, <<VarGet(v)>>)>>)>>

\* {{v$ {{v$}}}}
DocSelf == <<VarSet(v, <<VarGet(v)>>)>>

\* {{w$}}{{w$ a}}
DocReadThenSet == <<VarGet(w), VarSet(w, <<TextOf(A)>>)>>

arr == <<"r">>

\* {{v$ {{r@[a]}}}}
DocArrayChild == <<VarSet(v, <<ArrSet(arr, <<>>, <<(<<TextOf(A)>>)>>)>>)>>

\* \\{{ : an escaped backslash in front of an escaped marker
DocText == <<TextOf(<<"\\", "\\", "{", "{">>)>>

Docs ==
    { <<VarGet(v)>>, <<VarSet(v, <<TextOf(A)>>)>>
    , DocCached, DocNested, DocSelf, DocReadThenSet, DocArrayChild, DocText }

Here == [mem |-> mem, zt |-> zt, fault |-> "none"]

RECURSIVE Shape(_, _, _)
\* The contents of a chain, whatever the addresses of its elements.
Shape(m, element, fuel) ==
    IF element = Null THEN <<>>
    ELSE IF element \notin 1..Len(m) THEN <<[type |-> "dangling"]>>
    ELSE IF ~m[element].live THEN <<[type |-> "dangling"]>>
    ELSE IF fuel = 0 THEN <<[type |-> "cycle"]>>
    ELSE <<[ type     |-> m[element].type
           , text     |-> m[element].text
           , property |-> m[element].property
           , child    |-> Shape(m, m[element].child, fuel - 1)
           , array    |-> [i \in 1..Len(m[element].array) |-> Shape(m, m[element].array[i], fuel - 1)]
           , map      |-> [k \in DOMAIN m[element].map |-> Shape(m, m[element].map[k], fuel - 1)] ]>>
         \o Shape(m, m[element].next, fuel - 1)

\* The contents of the registries of a context.
Registry(S) ==
    [ variable          |-> [k \in DOMAIN S.zt.variable |-> Shape(S.mem, S.zt.variable[k], Len(S.mem))]
    , variable_readonly |-> S.zt.variable_readonly
    , array             |-> [k \in DOMAIN S.zt.array |->
                                [i \in 1..Len(S.zt.array[k]) |-> Shape(S.mem, S.zt.array[k][i], Len(S.mem))]]
    , array_readonly    |-> S.zt.array_readonly
    , map               |-> [k \in DOMAIN S.zt.map |->
                                [j \in DOMAIN S.zt.map[k] |-> Shape(S.mem, S.zt.map[k][j], Len(S.mem))]]
    , map_readonly      |-> S.zt.map_readonly
    , command           |-> S.zt.command ]

\* The names whose read-only flag is set.
Locked(readonly) == {name \in DOMAIN readonly : readonly[name] = TRUE}

\* What the host can tell about the context before a call.
Before ==
    [ variable |-> DOMAIN zt.variable
    , command  |-> zt.command
    , locked   |-> [ variable |-> Locked(zt.variable_readonly)
                   , array    |-> Locked(zt.array_readonly)
                   , map      |-> Locked(zt.map_readonly) ] ]

\* The evaluation that came right before an evaluation of the same chain.
Previous(op) ==
    IF op = "eval" /\ last.op = "eval"
    THEN <<[out |-> last.out, changed |-> last.changed]>>
    ELSE <<>>

\* The state after a call that returned: c is the heap and the context it
\* leaves, changed tells whether it changed the contents of a registry.
Returned(c, src, op, arg, out, error, changed) ==
    /\ mem'  = c.mem
    /\ zt'   = c.zt
    /\ doc'  = [root |-> c.root, src |-> IF c.root = Null THEN <<>> ELSE src]
    /\ last' = [ op |-> op, arg |-> arg, out |-> out, error |-> error, fault |-> "none", leak |-> c.leak
               , before  |-> Before
               , changed |-> changed
               , prev    |-> Previous(op) ]

\* What a call leaves behind.  A call that ran into undefined behaviour,
\* std::terminate or an exhausted call stack ends the process.
ReturnError(S, root, src, op, arg, out, error) ==
    IF Ok(S)
    THEN Returned(Compact(S, root), src, op, arg, out, error, Registry(S) # Registry(Here))
    ELSE /\ mem'  = <<>>
         /\ zt'   = NewZText
         /\ doc'  = [root |-> Null, src |-> src]
         /\ last' = [ op |-> op, arg |-> arg, out |-> <<>>, error |-> error, fault |-> S.fault, leak |-> 0
                    , before  |-> Before
                    , changed |-> FALSE
                    , prev    |-> Previous(op) ]

\* What a call that returns no error code leaves behind.
Return(S, root, src, op, arg, out) == ReturnError(S, root, src, op, arg, out, "Error_None")

Init ==
    /\ mem  = <<>>
    /\ zt   = NewZText
    /\ doc  = [root |-> Null, src |-> <<>>]
    /\ last = [ op |-> "create", arg |-> <<>>, out |-> <<>>, error |-> "Error_None", fault |-> "none", leak |-> 0
              , before  |-> [ variable |-> {}, command |-> EmptyMap
                             , locked |-> [variable |-> {}, array |-> {}, map |-> {}] ]
              , changed |-> FALSE
              , prev    |-> <<>> ]

Running == last.fault = "none"

Build(d) ==
    /\ Running
    /\ doc.root = Null
    /\ LET b == build_chain_(Here, d, Null, Null)
       IN  Return(b.s, b.element, d, "build", <<>>, <<>>)

Eval ==
    /\ Running
    /\ doc.root # Null
    /\ LET r == eval(Here, doc.root, TRUE, 1)
       IN  Return(r.s, doc.root, doc.src, "eval", <<>>, r.out)

Destroy ==
    /\ Running
    /\ doc.root # Null
    /\ Return(element_destroy_all(Here, Local(doc.root)), Null, <<>>, "element_destroy_all", <<>>, <<>>)

VariableSet(name, text, read_only) ==
    /\ Running
    /\ LET c == element_text_create(Here, text)
       IN  Return(variable_set(c.s, name, c.element, read_only), doc.root, doc.src
                 , "variable_set", <<name, text, read_only>>, <<>>)

VariableErase(name) ==
    /\ Running
    /\ Return(variable_erase(Here, name), doc.root, doc.src, "variable_erase", <<name>>, <<>>)

Clear ==
    /\ Running
    /\ Return(clear(Here), doc.root, doc.src, "clear", <<>>, <<>>)

Next ==
    \/ \E d \in Docs : Build(d)
    \/ Eval
    \/ Destroy
    \/ \E text \in {A, B}, read_only \in BOOLEAN : VariableSet(v, text, read_only)
    \/ VariableErase(v)
    \/ Clear

Spec == Init /\ [][Next]_vars

(***************************************************************************)
(* Properties of the evaluation of variables                               *)
(***************************************************************************)
There == [mem |-> mem', zt |-> zt', fault |-> "none"]

\* What the evaluation of a fresh copy of a chain returns in a context.
Read(S, chain) ==
    LET b == build_chain_(S, chain, Null, Null)
    IN  eval(b.s, b.element, TRUE, 1)

\* What the evaluation of the chain registered under a variable name returns.
ReadVariable(S, name) == eval(S, variable(S, name), TRUE, 1)

\* A chain that is one set occurrence of a variable.
IsVariableSet(src) == Len(src) = 1 /\ src[1].type = "Variable" /\ src[1].child # <<>>

\* C1, as claimed: once a variable is locked by variable_set(.., read_only =
\* true), a later variable_set(.., read_only = false) on that name changes
\* neither what a get occurrence of the name evaluates to nor what the chain
\* returned by variable() evaluates to.
C1_LockGuardsVariableSet ==
    [][ ( /\ last'.op = "variable_set"
          /\ last'.arg[3] = FALSE
          /\ last'.arg[1] \in Locked(zt.variable_readonly) )
        => ( /\ last'.fault = "none"
             /\ Read(There, <<VarGet(last'.arg[1])>>).out = Read(Here, <<VarGet(last'.arg[1])>>).out
             /\ ReadVariable(There, last'.arg[1]).out = ReadVariable(Here, last'.arg[1]).out ) ]_vars

\* C1, amended: variable_set(.., B, read_only = false) on a locked name
\* replaces the registered chain and clears the lock: a get occurrence of
\* the name and the chain returned by variable() evaluate to B's content.
C1_VariableSetReplacesLocked ==
    ( /\ last.op = "variable_set"
      /\ last.arg[3] = FALSE
      /\ last.arg[1] \in last.before.locked.variable )
    => ( /\ last.fault = "none"
         /\ Read(Here, <<VarGet(last.arg[1])>>).out = escape_sequence_remove_(last.arg[2])
         /\ ReadVariable(Here, last.arg[1]).out = escape_sequence_remove_(last.arg[2])
         /\ zt.variable_readonly[last.arg[1]] = FALSE )

C1_Witness ==
    /\ last.op = "variable_set"
    /\ last.arg = <<v, B, FALSE>>
    /\ v \in last.before.locked.variable
    /\ Read(Here, <<VarGet(v)>>).out = B
    /\ zt.variable_readonly[v] = FALSE

\* C3, as claimed: the evaluation of a set occurrence of a variable that is
\* not locked returns the evaluation of its child; afterwards the chain
\* registered under the name evaluates to that same string, the chain
\* registered before is destroyed (nothing is left allocated and
\* unreachable), and the read-only flag of the name is false.
C3_VariableSetOccurrence ==
    [][ ( /\ doc.root # Null
          /\ last'.op = "eval"
          /\ IsVariableSet(doc.src)
          /\ doc.src[1].text \notin Locked(zt.variable_readonly) )
        => ( /\ last'.fault = "none"
             /\ last'.out = Read(Here, doc.src[1].child).out
             /\ Ok(ReadVariable(There, doc.src[1].text).s)
             /\ ReadVariable(There, doc.src[1].text).out = last'.out
             /\ last'.leak = 0
             /\ Contains(zt'.variable_readonly, doc.src[1].text)
             /\ zt'.variable_readonly[doc.src[1].text] = FALSE ) ]_vars

\* C4: in the chain that sets w to a, sets v to {{w$}}s, sets w to b and then
\* reads v, with neither name locked, the read of v uses the new value of w:
\* the chain evaluates to "a" "as" "b" "bs".
C4_CachedValueIsReevaluated ==
    ( /\ last.op = "eval"
      /\ doc.src = DocCached
      /\ last.before.locked.variable \cap {v, w} = {} )
    => ( /\ last.fault = "none"
         /\ last.out = <<"a", "a", "s", "b", "b", "s">> )

C4_Witness ==
    /\ last.op = "eval"
    /\ doc.src = DocCached
    /\ last.before.locked.variable = {}
    /\ last.out = <<"a", "a", "s", "b", "b", "s">>
    /\ ReadVariable(Here, v).out = <<"b", "s">>

\* C5, as claimed: every evaluation returns a string, in every context that
\* earlier evaluations and registry calls can produce.
C5_EvalReturns == last.op = "eval" => last.fault = "none"

\* C6: where neither v nor w is registered, the evaluation of
\* {{v$ {{w$ {{v$}}}}}} returns the empty string; unless v is locked, both
\* names are registered by it.
C6_NestedSelfReference ==
    ( /\ last.op = "eval"
      /\ doc.src = DocNested
      /\ last.before.variable \cap {v, w} = {} )
    => ( /\ last.fault = "none"
         /\ last.out = <<>>
         /\ (v \notin last.before.locked.variable => {v, w} \subseteq DOMAIN zt.variable) )

C6_Witness ==
    /\ last.op = "eval"
    /\ doc.src = DocNested
    /\ last.before.variable = {}
    /\ last.before.locked.variable = {}
    /\ last.fault = "none"
    /\ last.out = <<>>
    /\ {v, w} \subseteq DOMAIN zt.variable

\* C7, as claimed: two evaluations of the same chain in a row, with no call
\* between them, that both return, return the same string.
C7_EvalTwiceSameString ==
    (last.op = "eval" /\ last.prev # <<>> /\ last.fault = "none")
    => last.out = last.prev[1].out

\* C7, amended: when an evaluation of a chain returned and left the contents
\* of every registry as they were, the next evaluation of the same chain,
\* with no call between the two, returns the same string.
C7_EvalTwiceUnchangedRegistry ==
    (last.op = "eval" /\ last.prev # <<>> /\ ~last.prev[1].changed)
    => (last.fault = "none" /\ last.out = last.prev[1].out)

C7_Witness ==
    /\ last.op = "eval"
    /\ last.prev # <<>>
    /\ ~last.prev[1].changed
    /\ doc.src = DocReadThenSet
    /\ last.out = <<"a", "a">>
    /\ last.prev[1].out = <<"a", "a">>

\* C29: variable_erase, variable_clear and clear release the lock of a
\* name with its entry: where v is not registered, also when it was
\* registered as read only before it was erased or cleared, the
\* evaluation of the set occurrence {{v$ a}} returns a and registers v.
C29_EraseReleasesLock ==
    ( /\ last.op = "eval"
      /\ doc.src = <<VarSet(v, <<TextOf(A)>>)>>
      /\ v \notin last.before.variable )
    => ( /\ last.fault = "none"
         /\ last.out = A
         /\ v \in DOMAIN zt.variable )

(***************************************************************************)
(* A host that works with arrays and maps                                  *)
(***************************************************************************)
sub == <<"q">>

dict == <<"m">>

KeyK == <<"k">>

KeyJ == <<"j">>

\* {{r@[a,b]}}
DocArraySet == <<ArrSet(arr, <<>>, <<(<<TextOf(A)>>), (<<TextOf(B)>>)>>)>>

\* {{r@1[a,b]}}
DocArraySetAt == <<ArrSet(arr, <<"1">>, <<(<<TextOf(A)>>), (<<TextOf(B)>>)>>)>>

\* {{r@[b]}}
DocArraySetOne == <<ArrSet(arr, <<>>, <<(<<TextOf(B)>>)>>)>>

\* {{r@0[{{q@[a]}}]}}
DocArrayNested == <<ArrSet(arr, <<"0">>, <<(<<ArrSet(sub, <<>>, <<(<<TextOf(A)>>)>>)>>)>>)>>

\* {{m#k(k=a,j=b)}}
DocMapSetAt == <<MapSet(dict, KeyK, (KeyK :> <<TextOf(A)>>) @@ (KeyJ :> <<TextOf(B)>>))>>

\* {{m#(k=b)}}
DocMapSetOne == <<MapSet(dict, <<>>, (KeyK :> <<TextOf(B)>>))>>

DataDocs ==
    { <<ArrGet(arr, <<>>)>>, <<ArrGet(arr, <<"1">>)>>
    , DocArraySet, DocArraySetAt, DocArraySetOne, DocArrayNested
    , <<MapGet(dict, KeyK)>>, <<MapGet(dict, <<>>)>>
    , DocMapSetAt, DocMapSetOne }

RECURSIVE text_array_(_, _, _)
\* The host's VectorElement: one element_text_create() per value.
text_array_(S, texts, acc) ==
    IF texts = <<>> THEN [s |-> S, array |-> acc]
    ELSE Bind(element_text_create(S, Head(texts)), LAMBDA c :
         text_array_(c.s, Tail(texts), Append(acc, c.element)))

RECURSIVE text_map_(_, _, _)
\* The host's MapStringElement: one element_text_create() per key.
text_map_(S, texts, acc) ==
    IF DOMAIN texts = {} THEN [s |-> S, map |-> acc]
    ELSE Bind(CHOOSE k \in DOMAIN texts : TRUE, LAMBDA key :
         Bind(element_text_create(S, texts[key]), LAMBDA c :
         text_map_(c.s, MapErase(texts, key), MapPut(acc, key, c.element))))

ArraySetCall(name, texts, read_only) ==
    /\ Running
    /\ LET c == text_array_(Here, texts, <<>>)
       IN  Return(array_set(c.s, name, c.array, read_only), doc.root, doc.src
                 , "array_set", <<name, texts, read_only>>, <<>>)

ArrayEraseCall(name) ==
    /\ Running
    /\ Return(array_erase(Here, name), doc.root, doc.src, "array_erase", <<name>>, <<>>)

MapSetCall(name, texts, read_only) ==
    /\ Running
    /\ LET c == text_map_(Here, texts, EmptyMap)
       IN  Return(map_set(c.s, name, c.map, read_only), doc.root, doc.src
                 , "map_set", <<name, texts, read_only>>, <<>>)

MapEraseCall(name) ==
    /\ Running
    /\ Return(map_erase(Here, name), doc.root, doc.src, "map_erase", <<name>>, <<>>)

NextData ==
    \/ \E d \in DataDocs : Build(d)
    \/ Eval
    \/ Destroy
    \/ \E read_only \in BOOLEAN : ArraySetCall(arr, <<A, B>>, read_only)
    \/ ArrayEraseCall(arr)
    \/ \E read_only \in BOOLEAN : MapSetCall(dict, (KeyK :> A) @@ (KeyJ :> B), read_only)
    \/ MapEraseCall(dict)

SpecData == Init /\ [][NextData]_vars

(***************************************************************************)
(* Properties of the evaluation of arrays and maps                         *)
(***************************************************************************)
\* A chain that is one set occurrence: a variable with content, an array or
\* a map with a literal.
IsSet(src) ==
    /\ Len(src) = 1
    /\ \/ src[1].type = "Variable" /\ src[1].child # <<>>
       \/ src[1].type = "Array" /\ src[1].array # <<>>
       \/ src[1].type = "Map" /\ DOMAIN src[1].map # {}

\* The get occurrence with the name and the selector of an occurrence.
GetOf(a) == [a EXCEPT !.child = <<>>, !.array = <<>>, !.map = EmptyMap]

\* The read-only flag of the name of an occurrence is set.
IsLocked(a) ==
    CASE a.type = "Variable" -> a.text \in Locked(zt.variable_readonly)
      [] a.type = "Array"    -> a.text \in Locked(zt.array_readonly)
      [] a.type = "Map"      -> a.text \in Locked(zt.map_readonly)
      [] OTHER               -> FALSE

\* C2, as claimed: the evaluation of a set occurrence of a variable, an array
\* or a map whose name is locked leaves the contents and the flags of the
\* registries as they were and returns what the get occurrence with the same
\* name and selector returns.
C2_LockedSetReadsRegistry ==
    [][ ( /\ doc.root # Null
          /\ last'.op = "eval"
          /\ IsSet(doc.src)
          /\ IsLocked(doc.src[1]) )
        => ( /\ last'.fault = "none"
             /\ Registry(There) = Registry(Here)
             /\ last'.out = Read(Here, <<GetOf(doc.src[1])>>).out ) ]_vars

\* The decimal form of an index below ten.
Digits(i) == <<(<<"0", "1", "2", "3", "4", "5", "6", "7", "8", "9">>)[i + 1]>>

\* The entry of the literal that the selector of a set occurrence addresses,
\* the empty chain when it addresses none.
Addressed(a) ==
    CASE a.type = "Array" ->
            IF a.key # <<>> /\ Stoul(a.key).ok /\ Stoul(a.key).value < Len(a.array)
            THEN a.array[Stoul(a.key).value + 1] ELSE <<>>
      [] a.type = "Map" ->
            IF a.key \in DOMAIN a.map THEN a.map[a.key] ELSE <<>>

\* C9, as claimed: the evaluation of a set occurrence of an array or a map
\* whose name is not locked returns the evaluation of the literal entry that
\* its selector addresses, the empty string if it addresses none, and
\* registers the literal: afterwards the get occurrence of every index or key
\* of the literal returns the evaluation of that entry.
C9_LiteralIsRegistered ==
    [][ ( /\ doc.root # Null
          /\ last'.op = "eval"
          /\ IsSet(doc.src)
          /\ doc.src[1].type \in {"Array", "Map"}
          /\ ~IsLocked(doc.src[1]) )
        => ( /\ last'.fault = "none"
             /\ last'.out = Read(Here, Addressed(doc.src[1])).out
             /\ (doc.src[1].type = "Array" =>
                    \A i \in 1..Len(doc.src[1].array) :
                        /\ Ok(Read(There, <<ArrGet(doc.src[1].text, Digits(i - 1))>>).s)
                        /\ Read(There, <<ArrGet(doc.src[1].text, Digits(i - 1))>>).out
                               = Read(There, doc.src[1].array[i]).out)
             /\ (doc.src[1].type = "Map" =>
                    \A key \in DOMAIN doc.src[1].map :
                        /\ Ok(Read(There, <<MapGet(doc.src[1].text, key)>>).s)
                        /\ Read(There, <<MapGet(doc.src[1].text, key)>>).out
                               = Read(There, doc.src[1].map[key]).out) ) ]_vars

\* C10, as claimed: the evaluation of a get occurrence of an array that has
\* no selector returns the empty string, whatever is registered.
C10_ArrayGetWithoutIndex ==
    (last.op = "eval" /\ doc.src = <<ArrGet(arr, <<>>)>>)
    => (last.fault = "none" /\ last.out = <<>>)

(***************************************************************************)
(* A host that parses text                                                 *)
(***************************************************************************)
MaxLen == 4

MaxContent == 3

Alphabet == {Token_Escape, Token_Begin, Token_End, "a"}

RECURSIVE Strings(_)
\* The strings over the alphabet that are not longer than n.
Strings(n) ==
    IF n = 0 THEN {<<>>}
    ELSE LET shorter == Strings(n - 1)
         IN  shorter \cup {Append(string, c) : string \in shorter, c \in Alphabet}

\* {{v$content}}
Wrap(content) == <<"{", "{", "v", "$">> \o content \o <<"}", "}">>

Contents == Strings(MaxContent) \ {<<>>}

Samples ==
    { <<" ", "a", " ", "\t", "a", "\n">>
    , <<"{", "{", "r", "@", "1", "[", "a", ",", "b", "]", "}", "}">>
    , <<"{", "{", "m", "#", "k", "(", "k", "=", "a", ")", "}", "}">>
    , <<"{", "{", "c", "(", "k", "=", "a", ")", " ", "a", "}", "}">> }

Texts == Strings(MaxLen) \cup {Wrap(content) : content \in Contents} \cup Samples

\* What a read below the first character of a string can yield.
Under == {Token_Escape, "NUL"}

\* The host parses a text once it has handed back the chain of the text
\* before and has cleared the context.
Parse(text, under) ==
    /\ Running
    /\ doc.root = Null
    /\ zt = NewZText
    /\ LET p == parse(Here, text, under)
       IN  ReturnError(p.s, p.element, text, "parse", <<text, under>>, <<>>, p.error)

NextParse ==
    \/ \E text \in Texts, under \in Under : Parse(text, under)
    \/ Eval
    \/ Destroy
    \/ Clear

SpecParse == Init /\ [][NextParse]_vars

(***************************************************************************)
(* Properties of the parse of escaped markers                              *)
(***************************************************************************)
\* An escaped marker starts the text: a backslash and then {{ or }}.
EscapedMarkerAt(text) ==
    /\ Len(text) >= 3
    /\ text[1] = Token_Escape
    /\ text[2] \in {Token_Begin, Token_End}
    /\ text[3] = text[2]

RECURSIVE IsLiteral(_)
\* Read from left to right, every {{ and every }} of the text belongs to
\* an escaped marker, and the text holds no whitespace.
IsLiteral(text) ==
    IF text = <<>> THEN TRUE
    ELSE IF EscapedMarkerAt(text) THEN IsLiteral(SubSeq(text, 4, Len(text)))
    ELSE IF Len(text) >= 2 /\ text[1] \in {Token_Begin, Token_End} /\ text[2] = text[1] THEN FALSE
    ELSE ~IsSpace(text[1]) /\ IsLiteral(Tail(text))

RECURSIVE Unescaped(_)
\* The text with every escaped marker replaced by the marker.
Unescaped(text) ==
    IF text = <<>> THEN <<>>
    ELSE IF EscapedMarkerAt(text) THEN <<text[2], text[3]>> \o Unescaped(SubSeq(text, 4, Len(text)))
    ELSE <<text[1]>> \o Unescaped(Tail(text))

\* A text that can stand as the content of a token: it is not empty and
\* its last character does not escape what follows the content.
IsContent(text) == text \in Contents /\ text[Len(text)] # Token_Escape

\* C8, as claimed: a text whose markers are all escaped, one of them at
\* least, parses without error, as literal text and as the content of a
\* token, also when an escaped marker is followed by further braces, and
\* the evaluation of what was parsed returns the text with every escaped
\* marker replaced by the marker.
C8_EscapeRoundTrip ==
    \A text \in Strings(MaxLen) :
        (IsLiteral(text) /\ Unescaped(text) # text) =>
            /\ (last.op = "parse" /\ last.arg[1] = text) => last.error = "Error_None"
            /\ (last.op = "eval" /\ doc.src = text) => (last.fault = "none" /\ last.out = Unescaped(text))
            /\ (last.op = "parse" /\ IsContent(text) /\ last.arg[1] = Wrap(text)) => last.error = "Error_None"
            /\ (last.op = "eval" /\ IsContent(text) /\ doc.src = Wrap(text))
                   => (last.fault = "none" /\ last.out = Unescaped(text))

(***************************************************************************)
(* The host of the commands                                                *)
(***************************************************************************)
cmd == <<"c">>

\* The callbacks a host registers: the one of the tests, and two that
\* return a fixed string.
Callbacks == {"content", "t", "u"}

\* {{c}}
DocCommand == <<Cmd(cmd, <<>>)>>

\* {{c {{v$a}}}}
DocCommandContent == <<Cmd(cmd, <<VarSet(v, <<TextOf(A)>>)>>)>>

\* {{c(k=a) {{v$a}}}}
TextCommand == <<"{", "{", "c", "(", "k", "=", "a", ")", " ", "{", "{", "v", "$", "a", "}", "}", "}", "}">>

CommandSet(name, lambda) ==
    /\ Running
    /\ Return(command_set(Here, name, lambda), doc.root, doc.src, "command_set", <<name, lambda>>, <<>>)

NextCommand ==
    \/ \E d \in {DocCommand, DocCommandContent, <<VarGet(v)>>} : Build(d)
    \/ Parse(TextCommand, "NUL")
    \/ Eval
    \/ Destroy
    \/ \E lambda \in Callbacks : CommandSet(cmd, lambda)
    \/ Clear

SpecCommand == Init /\ [][NextCommand]_vars

(***************************************************************************)
(* Properties of the evaluation of commands                                *)
(***************************************************************************)
\* The chains that are one command named cmd, with content.
CommandChains == {DocCommand, DocCommandContent, TextCommand}

\* C11: the evaluation of a command returns the empty string when no
\* callback is registered under its name, and otherwise the string returned
\* by the callback that command_set registered last under the name, whatever
\* was registered before; the engine does not evaluate the content of the
\* command (the variable set in the content is not registered, and the
\* content is in the output only when the callback evaluates it).
C11_CommandEval ==
    [][ /\ (last'.op = "eval" /\ doc.src \in CommandChains /\ ~Contains(zt.command, cmd))
              => (last'.fault = "none" /\ last'.out = <<>> /\ ~last'.changed)
        /\ (last'.op = "eval" /\ doc.src \in CommandChains /\ Contains(zt.command, cmd))
              => /\ last'.fault = "none"
                 /\ zt.command[cmd] # "content" => (last'.out = <<zt.command[cmd]>> /\ ~last'.changed)
                 /\ zt.command[cmd] = "content" => (last'.out = <<"a", "X">> /\ doc.src # DocCommand)
                                                       \/ (last'.out = <<"X">> /\ doc.src = DocCommand)
        /\ (last'.op = "command_set" /\ last'.arg[2] # "content")
              => Read(There, DocCommandContent).out = <<last'.arg[2]>>
      ]_vars

\* A callback was registered over another one, and a command evaluates to
\* the string of the later one.
C11_Witness ==
    /\ last.op = "command_set"
    /\ Contains(last.before.command, cmd)
    /\ last.before.command[cmd] = "t"
    /\ last.arg = <<cmd, "u">>
    /\ Read(Here, DocCommandContent).out = <<"u">>
    /\ ~Contains(zt.variable, v)

(***************************************************************************)
(* The host of the literal parsers                                         *)
(***************************************************************************)
MaxPairs == 3

\* What stands between two separators of a map literal: a pair, a pair
\* with whitespace, a key alone, a value alone, a key without value and
\* nothing.
Pairs ==
    { <<"k", "=", "a">>, <<" ", "j", " ", "=", " ", "b", " ">>, <<"k">>
    , <<" ", "=", "a">>, <<"k", "=", " ">>, <<>> }

RECURSIVE PairLists(_)
PairLists(n) ==
    IF n = 0 THEN {<<>>}
    ELSE LET shorter == PairLists(n - 1)
         IN  shorter \cup {Append(pairs, pair) : pairs \in shorter, pair \in Pairs}

RECURSIVE Joined(_)
\* The pairs with a separator between them.
Joined(pairs) ==
    IF Len(pairs) = 1 THEN pairs[1]
    ELSE pairs[1] \o <<",">> \o Joined(Tail(pairs))

MapText(pairs) == <<"(">> \o Joined(pairs) \o <<")">>

MapTexts == {MapText(pairs) : pairs \in PairLists(MaxPairs) \ {<<>>}}

\* The host parses a literal where it parses a text.
ParseMap(text) ==
    /\ Running
    /\ doc.root = Null
    /\ zt = NewZText
    /\ ReturnError(Here, doc.root, doc.src, "parse_map", <<text>>, <<>>, parse_map(text).error)

(***************************************************************************)
(* The host of the token parser                                            *)
(***************************************************************************)
\* What a token can start with, after optional whitespace.
Leads == {<<>>, <<" ">>}

FirstChars == {"$", "@", "#", "(", "*", "[", "=", "_", "v"}

Firsts == {<<>>} \cup {<<c>> : c \in FirstChars}

Rests == {<<>>, <<"$">>, <<"$", "a">>}

\* The end of a token: the end marker, nothing, half a marker and an
\* escaped marker.
Closings == {<<"}", "}">>, <<>>, <<"}">>, <<"\\", "}", "}">>}

TokenText(lead, first, rest, closing) == <<"{", "{">> \o lead \o first \o rest \o closing

TokenTexts ==
    {TokenText(lead, first, rest, closing) : lead \in Leads, first \in Firsts, rest \in Rests, closing \in Closings}

\* A token of an array or of a map: the name and the identifier, the
\* selector, the literal and what is left in front of the end marker.
DatasetText(name, selector, literal, trail) ==
    <<"{", "{">> \o name \o selector \o literal \o trail \o <<"}", "}">>

ArrayName == <<"r", "@">>

ArraySelectors == {<<>>, <<"1">>}

ArrayLiterals == {<<>>, <<"[", "a", "]">>}

MapName == <<"m", "#">>

MapSelectors == {<<>>, <<"k">>}

MapLiterals == {<<>>, <<"(", "k", "=", "a", ")">>}

\* Data that is neither selector nor literal, and no data.
Trails == {<<" ", "x">>, <<"*">>, <<>>}

DatasetTexts ==
    {DatasetText(ArrayName, selector, literal, trail) :
        selector \in ArraySelectors, literal \in ArrayLiterals, trail \in Trails}
    \cup {DatasetText(MapName, selector, literal, trail) :
        selector \in MapSelectors, literal \in MapLiterals, trail \in Trails}

\* Tokens with a literal that is not well formed, and the error of the
\* parser of the literal: a value, a key, a pair or the end of the literal
\* is missing.
Malformed ==
    { [text |-> <<"{", "{", "c", "(", "k", "=", ")", "}", "}">>, error |-> "Error_Parser_Map_Value_Missing"],
      [text |-> <<"{", "{", "c", "(", "=", "a", ")", "}", "}">>, error |-> "Error_Parser_Map_Key_Missing"],
      [text |-> <<"{", "{", "c", "(", "k", ")", "}", "}">>, error |-> "Error_Parser_Map_Key_Value_Pair_Missing"],
      [text |-> <<"{", "{", "c", "(", "k", "=", "a", ",", "j", "=", ")", "}", "}">>, error |-> "Error_Parser_Map_Value_Missing"],
      [text |-> <<"{", "{", "c", "(", "k", "=", "a", "}", "}">>, error |-> "Error_Parser_Command_Property_End_Marker_Missing"],
      [text |-> <<"{", "{", "m", "#", "(", "k", "=", ")", "}", "}">>, error |-> "Error_Parser_Map_Value_Missing"],
      [text |-> <<"{", "{", "m", "#", "(", "=", "a", ")", "}", "}">>, error |-> "Error_Parser_Map_Key_Missing"],
      [text |-> <<"{", "{", "m", "#", "(", "k", ")", "}", "}">>, error |-> "Error_Parser_Map_Key_Value_Pair_Missing"],
      [text |-> <<"{", "{", "m", "#", "(", "k", "=", "a", "}", "}">>, error |-> "Error_Parser_Map_End_Marker_Missing"],
      [text |-> <<"{", "{", "r", "@", "[", "a", ",", ",", "b", "]", "}", "}">>, error |-> "Error_Parser_Array_Value_Missing"],
      [text |-> <<"{", "{", "r", "@", "[", "a", ",", "]", "}", "}">>, error |-> "Error_Parser_Array_Value_Missing"],
      [text |-> <<"{", "{", "r", "@", "[", "a", "}", "}">>, error |-> "Error_Parser_Array_End_Marker_Missing"] }

\* Texts with a token without name {{}}: after a text and after a token,
\* in the content of a variable and of a command, and as a value of the
\* literal of an array and of a map.
Nameless ==
    { <<"a", "{", "{", "}", "}">>
    , <<"a", "{", "{", "v", "$", "a", "}", "}", "{", "{", "}", "}">>
    , <<"{", "{", "v", "$", " ", "{", "{", "}", "}", "}", "}">>
    , <<"{", "{", "c", " ", "{", "{", "}", "}", "}", "}">>
    , <<"{", "{", "r", "@", "[", "{", "{", "}", "}", "]", "}", "}">>
    , <<"{", "{", "r", "@", "[", "a", ",", "{", "{", "}", "}", "]", "}", "}">>
    , <<"{", "{", "m", "#", "(", "k", "=", "{", "{", "}", "}", ")", "}", "}">>
    , <<"a", "{", "{", "v", "$", " ", "{", "{", "}", "}", "}", "}">> }

\* No text of the host starts with }}: the parser reads nothing in front
\* of the text.
NextToken ==
    \/ \E text \in TokenTexts \cup DatasetTexts \cup {m.text : m \in Malformed} \cup Nameless :
           Parse(text, "NUL")
    \/ \E text \in MapTexts : ParseMap(text)
    \/ Eval
    \/ Destroy
    \/ Clear

SpecToken == Init /\ [][NextToken]_vars

(***************************************************************************)
(* Properties of the errors of the parsers                                 *)
(***************************************************************************)
RECURSIVE AssignAt(_, _)
\* The index of the first = of a pair, beyond the pair when it has none.
AssignAt(pair, index) ==
    IF index > Len(pair) THEN index
    ELSE IF pair[index] = "=" THEN index
    ELSE AssignAt(pair, index + 1)

Blank(text) == \A i \in 1..Len(text) : IsSpace(text[i])

\* What is wrong with a pair.
Defect(pair) ==
    LET index == AssignAt(pair, 1)
    IN  IF index > Len(pair) THEN "Error_Parser_Map_Key_Value_Pair_Missing"
        ELSE IF Blank(SubSeq(pair, 1, index - 1)) THEN "Error_Parser_Map_Key_Missing"
        ELSE IF Blank(SubSeq(pair, index + 1, Len(pair))) THEN "Error_Parser_Map_Value_Missing"
        ELSE "Error_None"

RECURSIVE FirstDefect(_)
\* What is wrong with the first pair of a literal that is not well formed.
FirstDefect(pairs) ==
    IF pairs = <<>> THEN "Error_None"
    ELSE IF Defect(pairs[1]) # "Error_None" THEN Defect(pairs[1])
    ELSE FirstDefect(Tail(pairs))

\* The map literal parser returns the error of the first pair that is not
\* well formed; () is the empty literal.
MapLiteralErrors ==
    \A pairs \in PairLists(MaxPairs) \ {<<>>, << <<>> >>} :
        (last.op = "parse_map" /\ last.arg[1] = MapText(pairs)) => last.error = FirstDefect(pairs)

\* The first character of a token that is at its end, whitespace skipped.
FirstOf(first, rest) == Head(first \o rest \o <<"}">>)

\* The error of a token whose name is missing or invalid, when the
\* characters of "missing" in front of the name mean that it is missing.
NameError(c, missing) ==
    IF c \in missing THEN "Error_Parser_Token_Name_Missing"
    ELSE IF ~(IsAlnum(c) \/ c = "_") THEN "Error_Parser_Token_Name_Invalid"
    ELSE "Error_None"

TokenErrors(missing) ==
    \A lead \in Leads, first \in Firsts, rest \in Rests, closing \in Closings :
        (last.op = "parse" /\ last.arg[1] = TokenText(lead, first, rest, closing)) =>
            IF closing # <<"}", "}">>
            THEN last.error = "Error_Parser_Token_End_Marker_Missing"
            ELSE NameError(FirstOf(first, rest), missing) # "Error_None"
                     => last.error = NameError(FirstOf(first, rest), missing)

\* C12, as claimed: a token without end marker is Token_End_Marker_Missing;
\* a token with an end marker whose first character after whitespace is
\* one of $ @ # } is Token_Name_Missing, and Token_Name_Invalid when it is
\* any other character that is neither alphanumeric nor an underscore; the
\* map literal parser returns the error of the first defective pair.
C12_ParseErrors_Claimed ==
    /\ TokenErrors({"$", "@", "#", "}"})
    /\ MapLiteralErrors

\* C12, amended: the same, with ( among the characters that make the name
\* missing.
C12_ParseErrors ==
    /\ TokenErrors({"$", "@", "#", "(", "}"})
    /\ MapLiteralErrors

\* The parse of {{(}} has returned Token_Name_Missing.
C12_Witness ==
    /\ last.op = "parse"
    /\ last.arg[1] = TokenText(<<>>, <<"(">>, <<>>, <<"}", "}">>)
    /\ last.error = "Error_Parser_Token_Name_Missing"

\* C13: the parse of an array or map token with a selector, a literal or
\* both, and data other than whitespace between them and the end marker,
\* returns Error_Parser_Array_Contains_Invalid_Data or
\* Error_Parser_Map_Contains_Invalid_Data, and no element.
C13_TrailingData ==
    \A trail \in Trails \ {<<>>} :
        /\ \A selector \in ArraySelectors, literal \in ArrayLiterals :
               ( /\ selector \o literal # <<>>
                 /\ last.op = "parse"
                 /\ last.arg[1] = DatasetText(ArrayName, selector, literal, trail) )
                   => (last.error = "Error_Parser_Array_Contains_Invalid_Data" /\ doc.root = Null)
        /\ \A selector \in MapSelectors, literal \in MapLiterals :
               ( /\ selector \o literal # <<>>
                 /\ last.op = "parse"
                 /\ last.arg[1] = DatasetText(MapName, selector, literal, trail) )
                   => (last.error = "Error_Parser_Map_Contains_Invalid_Data" /\ doc.root = Null)

\* C14: the parse of a token whose literal (the properties of a command,
\* the literal of a map or of an array) is not well formed returns the
\* error of the parser of the literal, and no element.
C14_NestedErrors ==
    \A m \in Malformed :
        (last.op = "parse" /\ last.arg[1] = m.text) => (last.error = m.error /\ doc.root = Null)

\* C15: when a parse returns an error, every element that the parse has
\* created is destroyed and the handle of the caller is null.
C15_FailedParseLeavesNothing ==
    (last.op = "parse" /\ last.error # "Error_None")
        => (last.fault = "none" /\ last.leak = 0 /\ doc.root = Null)

(***************************************************************************)
(* The host of the element chains                                          *)
(***************************************************************************)
MaxElements == 4

\* {{c {{r@[a]}}}}
DocDeep == <<Cmd(cmd, <<ArrSet(arr, <<>>, << <<TextOf(A)>> >>)>>)>>

\* The elements that are allocated.
Allocated(m) == {e \in 1..Len(m) : m[e].live}

\* The host keeps a pointer to every element it has created and passes
\* the pointers of elements that are allocated.
Held == Allocated(mem)

\* The slots of the literals and of the registries that point to n.
LiteralSlots(m, n) ==
    UNION { {<<p, i>> : i \in {i \in 1..Len(m[p].array) : m[p].array[i] = n}} : p \in Allocated(m) }
    \cup UNION { {<<p, k>> : k \in {k \in DOMAIN m[p].map : m[p].map[k] = n}} : p \in Allocated(m) }

RegistrySlots(z, n) ==
    {<<name>> : name \in {name \in DOMAIN z.variable : z.variable[name] = n}}
    \cup UNION { {<<name, i>> : i \in {i \in 1..Len(z.array[name]) : z.array[name][i] = n}} : name \in DOMAIN z.array }
    \cup UNION { {<<name, k>> : k \in {k \in DOMAIN z.map[name] : z.map[name][k] = n}} : name \in DOMAIN z.map }

\* How many owners an element has: the next pointer of an element, the
\* child pointer of a parent, the slots of the literals and the slots of
\* the registries that point to it.
Owners(m, z, n) ==
    Cardinality({p \in Allocated(m) : m[p].next = n})
    + Cardinality({p \in Allocated(m) : m[p].child = n})
    + Cardinality(LiteralSlots(m, n))
    + Cardinality(RegistrySlots(z, n))

RECURSIVE Ends(_, _, _, _)
\* The walk from n along a pointer field ends at null.
Ends(m, n, field, fuel) ==
    IF n = Null THEN TRUE
    ELSE IF fuel = 0 \/ n \notin Allocated(m) THEN FALSE
    ELSE Ends(m, m[n][field], field, fuel - 1)

\* The elements that the elements of a set own directly: their children,
\* their next elements and the heads of the chains of their literals.
Owned(m, set) ==
    UNION { {m[n].child, m[n].next}
                \cup {m[n].array[i] : i \in 1..Len(m[n].array)}
                \cup {m[n].map[k] : k \in DOMAIN m[n].map} : n \in set \cap Allocated(m) }
    \ {Null}

RECURSIVE Closure(_, _, _)
\* The elements of a set and everything they own, at any depth.
Closure(m, set, fuel) ==
    IF fuel = 0 \/ Owned(m, set) \subseteq set THEN set
    ELSE Closure(m, set \cup Owned(m, set), fuel - 1)

\* Every pointer is null or points to an allocated element, the links of
\* the chains fit each other, no chain and no line of parents is a ring,
\* no element has two owners and no element owns itself.
WellFormed(m, z) ==
    \A n \in Allocated(m) :
        /\ {m[n].next, m[n].prev, m[n].child, m[n].parent} \subseteq Allocated(m) \cup {Null}
        /\ \A i \in 1..Len(m[n].array) : m[n].array[i] \in Allocated(m)
        /\ \A k \in DOMAIN m[n].map : m[n].map[k] \in Allocated(m)
        /\ m[n].next # Null => (m[m[n].next].prev = n /\ m[m[n].next].parent = m[n].parent)
        /\ m[n].prev # Null => m[m[n].prev].next = n
        /\ m[n].child # Null => (m[m[n].child].parent = n /\ m[m[n].child].prev = Null)
        /\ (m[n].parent # Null /\ m[n].prev = Null) => m[m[n].parent].child = n
        /\ Ends(m, n, "next", Len(m))
        /\ Ends(m, n, "parent", Len(m))
        /\ Owners(m, z, n) <= 1
        /\ n \notin Closure(m, Owned(m, {n}), Len(m))

\* The host makes its calls while the elements are what it takes them
\* for.
Sound == Running /\ WellFormed(mem, zt)

\* What a call on the elements leaves behind: the addresses of the
\* elements stay what they are.
Kept(S, op, arg, out, error) ==
    /\ mem'  = IF Ok(S) THEN S.mem ELSE <<>>
    /\ zt'   = IF Ok(S) THEN S.zt ELSE NewZText
    /\ doc'  = doc
    /\ last' = [ op |-> op, arg |-> arg, out |-> IF Ok(S) THEN out ELSE <<>>, error |-> error
               , fault |-> S.fault, leak |-> 0
               , before  |-> Before
               , changed |-> FALSE
               , prev    |-> <<>> ]

TextCreate ==
    /\ Len(mem) < MaxElements
    /\ Kept(element_text_create(Here, A).s, "element_text_create", <<>>, <<>>, "Error_None")

\* The host parses a text first.
ParseDeep ==
    /\ mem = <<>>
    /\ Kept(build_chain_(Here, DocDeep, Null, Null).s, "parse", <<>>, <<>>, "Error_None")

ElementAppend(position, element) ==
    LET r == element_append(Here, position, element)
    IN  Kept(r.s, "element_append", <<position, element>>, <<>>, r.error)

ElementInsert(position, element) ==
    LET r == element_insert(Here, position, element)
    IN  Kept(r.s, "element_insert", <<position, element>>, <<>>, r.error)

ElementRemove(element) ==
    Kept(element_remove(Here, element), "element_remove", <<element>>, <<>>, "Error_None")

ElementDestroy(element) ==
    LET r == element_destroy(Here, Local(element))
    IN  Kept(r.s, "element_destroy", <<element>>, <<r.retval, r.element>>, "Error_None")

ElementDestroyAll(element) ==
    Kept(element_destroy_all(Here, Local(element)), "element_destroy_all", <<element>>, <<>>, "Error_None")

ElementCommandContentSet(element, content) ==
    LET r == element_command_content_set(Here, element, content)
    IN  Kept(r.s, "element_command_content_set", <<element, content>>, <<>>, r.error)

NextChain ==
    \/ Sound /\ TextCreate
    \/ Sound /\ ParseDeep
    \/ Sound /\ \E position \in Held, element \in Held : ElementAppend(position, element)
    \/ Sound /\ \E position \in Held, element \in Held : ElementInsert(position, element)
    \/ Sound /\ \E element \in Held : ElementRemove(element)
    \/ Sound /\ \E element \in Held : ElementDestroy(element)
    \/ Sound /\ \E element \in Held : ElementDestroyAll(element)
    \/ Sound /\ \E element \in Held, content \in Held : ElementCommandContentSet(element, content)

SpecChain == Init /\ [][NextChain]_vars

(***************************************************************************)
(* Properties of the element chains                                        *)
(***************************************************************************)
RECURSIVE ChainFrom(_, _, _)
\* The elements of a chain from n to its tail.
ChainFrom(m, n, fuel) ==
    IF n = Null \/ fuel = 0 THEN <<>>
    ELSE <<n>> \o ChainFrom(m, m[n].next, fuel - 1)

\* The chain is in m as it stands in the sequence: every element is linked
\* to the one after it and back, and all have this parent.
Linked(m, chain, parent) ==
    /\ \A i \in 1..Len(chain) : m[chain[i]].parent = parent
    /\ \A i \in 1..(Len(chain) - 1) :
           m[chain[i]].next = chain[i + 1] /\ m[chain[i + 1]].prev = chain[i]

\* The chain stands between the elements before and after, which are
\* linked to its head and to its tail when they are not null.
Between(m, before, chain, after) ==
    /\ m[chain[1]].prev = before
    /\ before # Null => m[before].next = chain[1]
    /\ m[chain[Len(chain)]].next = after
    /\ after # Null => m[after].prev = chain[Len(chain)]

\* What a call of element_append or element_insert with these arguments
\* has done to the elements m.
Spliced(m, op, position, element, chain) ==
    IF m[element].prev # Null
    THEN last'.error = "Error_Element_In_Use" /\ last'.fault = "none" /\ mem' = m
    ELSE ~InSeq(chain, position) =>
             /\ last'.error = "Error_None"
             /\ last'.fault = "none"
             /\ Linked(mem', chain, m[position].parent)
             /\ IF op = "element_append"
                THEN /\ Between(mem', position, chain, m[position].next)
                     /\ mem'[position].prev = m[position].prev
                ELSE /\ Between(mem', m[position].prev, chain, position)
                     /\ mem'[position].next = m[position].next

Unlinked(m, element) ==
    /\ last'.fault = "none"
    /\ Len(mem') = Len(m)
    /\ mem'[element] = [m[element] EXCEPT !.next = Null, !.prev = Null, !.parent = Null]
    /\ \A n \in (1..Len(m)) \ {element} :
           mem'[n] = [m[n] EXCEPT
                         !.next  = IF n = m[element].prev THEN m[element].next ELSE @,
                         !.prev  = IF n = m[element].next THEN m[element].prev ELSE @,
                         !.child = IF n = m[element].parent /\ @ = element
                                   THEN m[element].next ELSE @]

\* C17: element_remove leaves the element with null next, prev and parent,
\* links its former prev and next to each other, moves the child pointer
\* of the parent to the former next when the element was the first child,
\* and changes nothing else: the text, type, properties, child subtree and
\* literals of the element and every other element stay as they were and
\* allocated.
C17_RemoveUnlinksOne ==
    [][ last'.op = "element_remove" => Unlinked(mem, last'.arg[1]) ]_vars

\* A Command with a child that holds a literal was removed from a chain:
\* it stands alone and its child subtree is as it was.
C17_Witness ==
    /\ last.op = "element_remove"
    /\ last.fault = "none"
    /\ mem[last.arg[1]].next = Null
    /\ mem[last.arg[1]].prev = Null
    /\ mem[last.arg[1]].child # Null
    /\ mem[mem[last.arg[1]].child].parent = last.arg[1]
    /\ mem[mem[last.arg[1]].child].array # <<>>
    /\ \E n \in Held : n # last.arg[1] /\ mem[n].parent = Null /\ mem[n].next # Null
    /\ WellFormed(mem, zt)

RECURSIVE ChainBefore(_, _, _)
\* The elements of a chain from n back to its head.
ChainBefore(m, n, fuel) ==
    IF n = Null \/ fuel = 0 THEN <<>>
    ELSE <<n>> \o ChainBefore(m, m[n].prev, fuel - 1)

\* The siblings of an element: the elements after it and before it.
Siblings(m, element) ==
    ChainFrom(m, m[element].next, Len(m)) \o ChainBefore(m, m[element].prev, Len(m))

\* What element_destroy has done to the elements m and returned.
Destroyed(m, element) ==
    /\ last'.fault = "none"
    /\ last'.out = <<m[element].next, Null>>
    /\ ~mem'[element].live
    /\ m[element].prev # Null => mem'[m[element].prev].next = m[element].next
    /\ m[element].next # Null => mem'[m[element].next].prev = m[element].prev
    /\ \A i \in DOMAIN Siblings(m, element) : mem'[Siblings(m, element)[i]].live

\* What element_destroy_all has done to the elements m: the element and
\* the elements after it are freed, the elements before it are allocated
\* and linked as they were, and the last of them has no next.
DestroyedAll(m, element) ==
    LET after  == ChainFrom(m, element, Len(m))
        before == ChainBefore(m, m[element].prev, Len(m))
    IN  /\ last'.fault = "none"
        /\ \A i \in DOMAIN after : ~mem'[after[i]].live
        /\ \A i \in DOMAIN before :
               mem'[before[i]] = [m[before[i]] EXCEPT !.next = IF i = 1 THEN Null ELSE @]

Belongings(m, element) ==
    Closure(m, Owned(m, {element}) \ {m[element].next}, Len(m))

\* C19: after element_destroy no element is allocated that the destroyed
\* element owned: none of its child subtree with the siblings of the
\* children, and none of the chains in the literals of the element or of
\* an element at any depth of its child subtree.
C19_DestroyFreesOwned ==
    [][ last'.op = "element_destroy"
            => \A n \in Belongings(mem, last'.arg[1]) : ~mem'[n].live ]_vars

\* No element has more than one owner among the next pointers, the child
\* pointers, the slots of the literals and the slots of the registries.
SingleOwner(m, z) == \A n \in Allocated(m) : Owners(m, z, n) <= 1

\* C20: a call of element_append, element_insert or
\* element_command_content_set that returns without error on elements
\* that have one owner each leaves elements that have one owner each.
C20_SingleOwnership ==
    [][ ( /\ last'.op \in {"element_append", "element_insert", "element_command_content_set"}
          /\ last'.error = "Error_None"
          /\ SingleOwner(mem, zt) )
            => SingleOwner(mem', zt') ]_vars

(***************************************************************************)
(* A host that caches: set occurrences of variables, arrays and maps, and  *)
(* the registry calls that overwrite or remove what they have registered   *)
(***************************************************************************)
\* {{v$ {{v$ a}}}}
DocSetSet == <<VarSet(v, <<VarSet(v, <<TextOf(A)>>)>>)>>

CacheDocs ==
    { <<VarSet(v, <<TextOf(A)>>)>>, <<VarGet(v)>>, DocSetSet, DocArrayChild
    , <<ArrSet(arr, <<"0">>, <<(<<TextOf(A)>>)>>)>>, <<ArrGet(arr, <<"0">>)>>
    , <<MapSet(dict, KeyK, (KeyK :> <<TextOf(A)>>))>>, <<MapGet(dict, KeyK)>> }

NextCache ==
    \/ \E d \in CacheDocs : Build(d)
    \/ Eval
    \/ Destroy
    \/ VariableSet(v, B, FALSE)
    \/ ArraySetCall(arr, <<B>>, FALSE)
    \/ MapSetCall(dict, (KeyK :> B), FALSE)
    \/ VariableErase(v)
    \/ Clear

SpecCache == Init /\ [][NextCache]_vars

(***************************************************************************)
(* Properties of the cached chains                                         *)
(***************************************************************************)
\* The heads of the chains that the registries of a context hold.
RegistryHeads(z) ==
    {z.variable[k] : k \in DOMAIN z.variable}
    \cup UNION { {z.array[k][i] : i \in 1..Len(z.array[k])} : k \in DOMAIN z.array }
    \cup UNION { {z.map[k][j] : j \in DOMAIN z.map[k]} : k \in DOMAIN z.map }

\* The elements of the tree of the host and the elements of the registries.
TreeElements == Closure(mem, {doc.root} \ {Null}, Len(mem))

RegistryElements == Closure(mem, RegistryHeads(zt) \ {Null}, Len(mem))

\* The tree of the host and the registries have no element in common.
Apart == Running => (TreeElements \cap RegistryElements = {})

\* Destroying the tree leaves every registered chain as it was.
TreeDestroyed ==
    last'.op = "element_destroy_all"
        => /\ last'.fault = "none"
           /\ Registry(There) = Registry(Here)
           /\ RegistryElements' \subseteq Allocated(mem')

\* Overwriting, erasing or clearing a registry leaves the tree as it was.
RegistryChanged ==
    last'.op \in {"variable_set", "array_set", "map_set", "variable_erase", "clear"}
        => /\ last'.fault = "none"
           /\ Shape(mem', doc'.root, Len(mem')) = Shape(mem, doc.root, Len(mem))
           /\ TreeElements' \subseteq Allocated(mem')

\* C21: the tree of the host shares no element with the chains of the
\* registries, whatever set occurrences have been evaluated; destroying
\* the tree leaves the registered chains as they were and allocated, and
\* overwriting, erasing or clearing a registry entry leaves the tree as
\* it was and allocated.
C21_NoAliasing == []Apart /\ [][TreeDestroyed /\ RegistryChanged]_vars

\* The tree {{v$ a}} was evaluated and destroyed: the copy of its content
\* that the evaluation registered is in the registry.
C21_Witness ==
    /\ last.op = "element_destroy_all"
    /\ last.fault = "none"
    /\ doc.root = Null
    /\ Contains(zt.variable, v)
    /\ Shape(mem, zt.variable[v], Len(mem)) = Shape(build_chain_(Here, <<TextOf(A)>>, Null, Null).s.mem, Len(mem) + 1, 1)

\* C28: no evaluation reads an element that has been destroyed: the set
\* occurrence of v in the registered chain of v does not free the element
\* that eval stands on before eval has read its next pointer.
C28_EvalReadsLive == last.op = "eval" => last.fault # "uaf"

\* C30: the chain that the evaluation of a set occurrence of a variable
\* registers is a copy of the whole content: element for element it has
\* the type, name, selector and, for Array and Map elements at any depth,
\* a copy of the literal of the content, so that it evaluates and
\* registers as the content does.
C30_CopyKeepsLiterals ==
    ( /\ last.op = "eval"
      /\ last.fault = "none"
      /\ doc.root # Null
      /\ IsVariableSet(doc.src)
      /\ doc.src[1].text \notin last.before.locked.variable )
    => ( /\ Contains(zt.variable, doc.src[1].text)
         /\ Shape(mem, zt.variable[doc.src[1].text], Len(mem)) = Shape(mem, mem[doc.root].child, Len(mem)) )

(***************************************************************************)
(* A host that registers its own chain as an array or as a map and keeps   *)
(* the chain                                                               *)
(***************************************************************************)
\* The chains of text that the host registers, and the occurrences that
\* read them.
OwnChains == { <<TextOf(A)>>, <<TextOf(A), TextOf(B)>> }

OwnDocs == OwnChains \cup { <<ArrGet(arr, <<"0">>)>>, <<MapGet(dict, KeyK)>> }

\* array_set(zt, name, { element }, read_only) with the chain of the host
ArraySetChain(name, read_only) ==
    /\ Running
    /\ doc.root # Null
    /\ doc.src \in OwnChains
    /\ Return(array_set(Here, name, <<doc.root>>, read_only), doc.root, doc.src
             , "array_set", <<name, doc.src, read_only>>, <<>>)

\* map_set(zt, name, { { key, element } }, read_only) with the chain of the host
MapSetChain(name, key, read_only) ==
    /\ Running
    /\ doc.root # Null
    /\ doc.src \in OwnChains
    /\ Return(map_set(Here, name, (key :> doc.root), read_only), doc.root, doc.src
             , "map_set", <<name, key, doc.src, read_only>>, <<>>)

NextOwn ==
    \/ \E d \in OwnDocs : Build(d)
    \/ Eval
    \/ Destroy
    \/ \E read_only \in BOOLEAN : ArraySetChain(arr, read_only)
    \/ \E read_only \in BOOLEAN : MapSetChain(dict, KeyK, read_only)
    \/ ArrayEraseCall(arr)
    \/ MapEraseCall(dict)

SpecOwn == Init /\ [][NextOwn]_vars

\* C22: after array_set and map_set the registry entry shares no element
\* with the chains that the caller has passed and still holds, so that
\* the caller can destroy them without a change to what the entry
\* evaluates to.
C22_SetStoresCopy ==
    [][ last'.op \in {"array_set", "map_set"}
            => /\ last'.fault = "none"
               /\ TreeElements' \cap RegistryElements' = {} ]_vars

(***************************************************************************)
(* A host that sets the data of elements of every type, with good and      *)
(* with bad arguments                                                      *)
(***************************************************************************)
MaxCreated == 4

\* The host creates an Array, a Map, a Variable and a Text element.
ElementCreate ==
    /\ Len(mem) < MaxCreated
    /\ Kept( ( CASE Len(mem) = 0 -> element_array_create(Here, arr)
                 [] Len(mem) = 1 -> element_map_create(Here, dict)
                 [] Len(mem) = 2 -> element_variable_create(Here, v)
                 [] OTHER        -> element_text_create(Here, A) ).s
            , "element_create", <<>>, <<>>, "Error_None" )

\* The elements that the host passes as the element to work on, and the
\* elements that it passes as data.
Handles == Held \cup {Null}

Values == {e \in Held : mem[e].type = "Text"}

ArrayArguments == {<<>>, <<Null>>} \cup {<<e>> : e \in Values} \cup {<<e, Null>> : e \in Values}

MapArguments == {EmptyMap} \cup {(name :> e) : name \in {KeyK, <<>>}, e \in Values \cup {Null}}

ElementArraySet(element, array_) ==
    LET r == element_array_set(Here, element, array_)
    IN  Kept(r.s, "element_array_set", <<element, array_>>, <<>>, r.error)

ElementArrayIndexSet(element, index) ==
    LET r == element_array_index_set(Here, element, index)
    IN  Kept(r.s, "element_array_index_set", <<element, index>>, <<>>, r.error)

ElementMapSet(element, map_) ==
    LET r == element_map_set(Here, element, map_)
    IN  Kept(r.s, "element_map_set", <<element, map_>>, <<>>, r.error)

ElementMapKeySet(element, index) ==
    LET r == element_map_key_set(Here, element, index)
    IN  Kept(r.s, "element_map_key_set", <<element, index>>, <<>>, r.error)

ElementTextSet(element, text) ==
    LET r == element_text_set(Here, element, text)
    IN  Kept(r.s, "element_text_set", <<element, text>>, <<>>, r.error)

ElementVariableSet(element, content) ==
    LET r == element_variable_set(Here, element, content)
    IN  Kept(r.s, "element_variable_set", <<element, content>>, <<>>, r.error)

NextMutate ==
    \/ Sound /\ ElementCreate
    \/ Sound /\ \E element \in Handles, array_ \in ArrayArguments : ElementArraySet(element, array_)
    \/ Sound /\ \E element \in Handles : ElementArrayIndexSet(element, 10)
    \/ Sound /\ \E element \in Handles, map_ \in MapArguments : ElementMapSet(element, map_)
    \/ Sound /\ \E element \in Handles, index \in {<<>>, KeyK} : ElementMapKeySet(element, index)
    \/ Sound /\ \E element \in Handles : ElementTextSet(element, <<"t">>)
    \/ Sound /\ \E element \in Handles, content \in Values \cup {Null} : ElementVariableSet(element, content)

SpecMutate == Init /\ [][NextMutate]_vars

\* The type of element that a mutator works on, and the error it returns
\* for an element of another type.
Variant ==
    [ element_array_set |-> "Array", element_array_index_set |-> "Array"
    , element_map_set |-> "Map", element_map_key_set |-> "Map"
    , element_text_set |-> "Text", element_variable_set |-> "Variable" ]

TypeError ==
    [ Array |-> "Error_Element_Type_Not_Array", Map |-> "Error_Element_Type_Not_Map"
    , Text |-> "Error_Element_Type_Not_Text", Variable |-> "Error_Element_Type_Not_Variable" ]

\* The errors that fit a call: none when the call is a good one.
Refusals(m, op, arg) ==
    IF arg[1] = Null THEN {"Error_Invalid_Parameter"}
    ELSE IF m[arg[1]].type # Variant[op] THEN {TypeError[Variant[op]]}
    ELSE IF op = "element_array_set"
    THEN IF arg[2] = <<>> THEN {"Error_Invalid_Parameter"}
         ELSE {"Error_Array_Contains_Invalid_Element" : i \in {i \in 1..Len(arg[2]) : arg[2][i] = Null}}
    ELSE IF op = "element_map_set"
    THEN IF DOMAIN arg[2] = {} THEN {"Error_Invalid_Parameter"}
         ELSE {"Error_Map_Contains_Invalid_Name" : name \in {name \in DOMAIN arg[2] : name = <<>>}}
              \cup {"Error_Map_Contains_Invalid_Element" : name \in {name \in DOMAIN arg[2] : arg[2][name] = Null}}
    ELSE IF op = "element_map_key_set" /\ arg[2] = <<>> THEN {"Error_Invalid_Parameter"}
    ELSE {}

\* C23: element_array_set, element_array_index_set, element_map_set,
\* element_map_key_set, element_text_set and element_variable_set return
\* Error_Invalid_Parameter for a null element, the type error of their
\* variant for an element of another type, Error_Invalid_Parameter for an
\* empty array, map or key, and the error of the bad entry for an array
\* with a null element and a map with an empty name or a null element;
\* whenever they return an error, no element has changed.
C23_MutatorsReject ==
    [][ last'.op \in DOMAIN Variant
            => /\ Refusals(mem, last'.op, last'.arg) # {}
                      => last'.fault = "none" /\ last'.error \in Refusals(mem, last'.op, last'.arg)
               /\ last'.error # "Error_None" => last'.fault = "none" /\ mem' = mem ]_vars

\* An Array element that holds a literal has refused an array with a null
\* element and still holds the literal.
C23_Witness ==
    /\ last.op = "element_array_set"
    /\ last.error = "Error_Array_Contains_Invalid_Element"
    /\ last.fault = "none"
    /\ mem[last.arg[1]].array # <<>>
    /\ \A i \in 1..Len(mem[last.arg[1]].array) : mem[last.arg[1]].array[i] \in Held

\* The child of every Command and Variable element is the head of its
\* chain, and every element of that chain has the element as parent.
ChildrenHeaded(m) ==
    \A p \in Allocated(m) :
        (m[p].type \in {"Command", "Variable"} /\ m[p].child # Null)
            => /\ m[p].child \in Allocated(m)
               /\ m[m[p].child].prev = Null
               /\ \A i \in DOMAIN ChainFrom(m, m[p].child, Len(m)) :
                      m[ChainFrom(m, m[p].child, Len(m))[i]].parent = p

\* C24: element_command_content_set, element_append, element_insert,
\* element_remove and element_destroy keep the child of every Command and
\* Variable element at the head of its chain and the parent of every
\* element of that chain at the element, also when an element is
\* inserted before the first child.
C24_ChildIsHead ==
    [][ ( /\ last'.op \in { "element_command_content_set", "element_append", "element_insert"
                           , "element_remove", "element_destroy" }
          /\ last'.fault = "none"
          /\ ChildrenHeaded(mem) )
            => ChildrenHeaded(mem') ]_vars

\* The next and prev pointers of the allocated elements fit each other and
\* no chain is a ring.
ChainsLinked(m) ==
    /\ \A x \in Allocated(m), y \in Allocated(m) : (m[x].next = y) <=> (m[y].prev = x)
    /\ \A n \in Allocated(m) : Ends(m, n, "next", Len(m))

\* C27: after an element_append, element_insert, element_remove or
\* element_destroy that has returned without error on chains that were
\* well formed, x.next = y exactly when y.prev = x for all allocated
\* elements x and y, and the walk along next from every element ends at
\* null; also when the appended element is the position itself or the
\* head of the chain that holds the position.
C27_ChainsStayLinked ==
    [][ ( /\ last'.op \in {"element_append", "element_insert", "element_remove", "element_destroy"}
          /\ last'.error = "Error_None"
          /\ last'.fault = "none"
          /\ ChainsLinked(mem) )
            => ChainsLinked(mem') ]_vars

(***************************************************************************)
(* A host that parses and evaluates array tokens with every kind of        *)
(* selector                                                                *)
(***************************************************************************)
\* Selectors: none, numbers, and names that the scan of the token accepts.
Selectors ==
    { <<>>, <<"0">>, <<"1">>, <<"1", "0">>, <<"x">>, <<"1", "x">>, <<"x", "1">>, <<"_">> }

SelectorLiterals == {<<>>, <<"[", "a", "]">>, <<"[", "a", ",", "b", "]">>}

SelectorTexts ==
    {DatasetText(ArrayName, lead \o selector, literal, <<>>) :
        lead \in Leads, selector \in Selectors, literal \in SelectorLiterals}

NextSelector ==
    \/ \E text \in SelectorTexts : Parse(text, "NUL")
    \/ Eval
    \/ Destroy
    \/ Clear

SpecSelector == Init /\ [][NextSelector]_vars

\* A selector that is absent or a string of decimal digits.
IsIndex(key) == \A i \in 1..Len(key) : IsDigit(key[i])

\* C25: every Array element that a successful parse has produced has a
\* selector that is absent or a string of decimal digits, and the
\* evaluation of a parsed array token returns.
C25_SelectorIsIndex ==
    /\ (last.op = "parse" /\ last.error = "Error_None" /\ last.fault = "none")
           => \A e \in Allocated(mem) :
                  (mem[e].type = "Array" /\ Contains(mem[e].property, <<>>))
                      => IsIndex(mem[e].property[<<>>])
    /\ last.op = "eval" => last.fault # "terminate"

(***************************************************************************)
(* A host that parses and evaluates text with whitespace                   *)
(***************************************************************************)
MaxSpaced == 4

Whitespace == {" ", "\t", "\n"}

RECURSIVE SpacedStrings(_)
\* The strings of whitespace and of the letter a that are not longer than n.
SpacedStrings(n) ==
    IF n = 0 THEN {<<>>}
    ELSE LET shorter == SpacedStrings(n - 1)
         IN  shorter \cup {Append(string, c) : string \in shorter, c \in Whitespace \cup {"a"}}

\* Runs of whitespace in front of, between and after two tokens.
Gaps == {<<>>, <<" ">>, <<"\t", "\n">>, <<"\n", " ">>}

\* gap {{v$a}} gap {{v$}} gap
Spaced(front, between, back) ==
    front \o <<"{", "{", "v", "$", "a", "}", "}">> \o between \o <<"{", "{", "v", "$", "}", "}">> \o back

SpacedTexts ==
    SpacedStrings(MaxSpaced)
    \cup {Spaced(front, between, back) : front \in Gaps, between \in Gaps, back \in Gaps}

NextSpace ==
    \/ \E text \in SpacedTexts : Parse(text, "NUL")
    \/ Eval
    \/ Destroy
    \/ Clear

SpecSpace == Init /\ [][NextSpace]_vars

RECURSIVE Squeezed(_)
\* The text with every run of whitespace replaced by one space.
Squeezed(text) ==
    IF text = <<>> THEN <<>>
    ELSE IF ~IsSpace(text[1]) THEN <<text[1]>> \o Squeezed(Tail(text))
    ELSE IF Len(text) >= 2 /\ IsSpace(text[2]) THEN Squeezed(Tail(text))
    ELSE <<" ">> \o Squeezed(Tail(text))

\* C26: a text of whitespace and letters parses without error and
\* evaluates to the text with every run of whitespace, a leading and a
\* trailing run too, replaced by one space and every other character
\* kept; the empty text evaluates to the empty string; a run of
\* whitespace in front of, between and after two tokens yields one space
\* at its place.
C26_WhitespaceRuns ==
    /\ (last.op = "parse" /\ last.arg[1] \in SpacedTexts) => (last.error = "Error_None" /\ last.fault = "none")
    /\ (last.op = "eval" /\ doc.src \in SpacedStrings(MaxSpaced))
           => (last.fault = "none" /\ last.out = Squeezed(doc.src))
    /\ \A front \in Gaps, between \in Gaps, back \in Gaps :
           (last.op = "eval" /\ doc.src = Spaced(front, between, back))
               => /\ last.fault = "none"
                  /\ last.out = Squeezed(front) \o <<"a">> \o Squeezed(between) \o <<"a">> \o Squeezed(back)

\* A text with a leading, an inner and a trailing run of whitespace was
\* evaluated.
C26_Witness ==
    /\ last.op = "eval"
    /\ doc.src = <<"\t", "a", "\n", " ">>
    /\ last.out = <<" ", "a", " ">>

=============================================================================
